---- MODULE Spec2Model ----
(***************************************************************************)
(* The simulation time control of the agent-centric meta-swap API:         *)
(* TimeControlService (the virtual clock, one record per simulation id in  *)
(* timeControlStore), SimulationService (the orchestrator in front of it)  *)
(* and the TimeControlController entry points.                             *)
(*                                                                         *)
(* Representation.  Wall-clock and simulated instants are JavaScript Date  *)
(* time values: whole milliseconds, as integers.  A time scale is a        *)
(* fixed-point number counted in units of 1/ScaleDen, so 0.1 is 10 and     *)
(* 1000 is 100000.  A JavaScript number handed in by a caller is a record  *)
(* [k, v] whose kind k tells a finite value from NaN, +Infinity, -Infinity *)
(* and undefined; a timestamp string is a record [k, v] whose kind tells a *)
(* parsable instant from an unparsable string and from an absent one.      *)
(* Every Date.now() read by one handler is taken at the same instant (the  *)
(* handlers are synchronous in-memory code); the wall clock moves only     *)
(* with the Tick action.  The Date range limit (8.64e15 ms) is not         *)
(* reached by the instants of this model.                                  *)
(***************************************************************************)
EXTENDS Integers, Sequences, FiniteSets, TLC

\* ------------------------------------------------------------- bounds
\* The wall clock (Date.now()) runs from 0 to MaxWall, a millisecond at a
\* time.
MaxWall == 3

\* ---------------------------------------------------------- constants
\* One unit of time scale is 1/ScaleDen.
ScaleDen == 100
\* validateTimeScale: const minTimeScale = 0.1
minTimeScale == 10
\* validateTimeScale: const maxTimeScale = 1000
maxTimeScale == 100000
\* initialize: params.timeScale || 1.0
defaultTimeScale == 100

\* ------------------------------------------------------------- inputs
Num(x) == [k |-> "num", v |-> x]
NaN == [k |-> "nan", v |-> 0]
PosInf == [k |-> "inf", v |-> 0]
NegInf == [k |-> "ninf", v |-> 0]
Undefined == [k |-> "undefined", v |-> 0]

\* The time scales a caller hands in: 0.05, 0.5 and 2000, zero, a negative
\* number, and the non-finite values.
ScaleInputs ==
    {Num(5), Num(50), Num(200000), Num(0), Num(0 - 100), NaN, PosInf, NegInf}

Ts(ms) == [k |-> "ms", v |-> ms]
InvalidTs == [k |-> "invalid", v |-> 0]
AbsentTs == [k |-> "absent", v |-> 0]

\* The timestamps a caller hands in: an instant before the epoch, one after
\* it, and an unparsable string.
TimeInputs == {Ts(0 - 3), Ts(7), InvalidTs}
\* The start times initializeSimulation is given; absent means now.
StartInputs == {AbsentTs, Ts(0 - 3), InvalidTs}

\* The simulation ids generateSimulationId can produce, which are also the
\* ids a caller can name: an id is unknown to the clock until
\* initializeSimulation has generated it.
SimIds == {"sim1"}

\* The data source parameters of initializeSimulation: the simulation type,
\* whether the historical period is valid, the number of tokens, and whether
\* the scenario type is one of the seven known ones.
Src(type, periodOk, tokens, scenarioOk) ==
    [type |-> type, periodOk |-> periodOk, tokens |-> tokens, scenarioOk |-> scenarioOk]
SourceInputs ==
    { Src("historical", TRUE, 1, TRUE), Src("historical", FALSE, 1, TRUE),
      Src("historical", TRUE, 0, TRUE), Src("scenario", TRUE, 1, TRUE),
      Src("scenario", TRUE, 1, FALSE), Src("scenario", TRUE, 0, TRUE),
      Src("other", TRUE, 1, TRUE) }

\* -------------------------------------------------------------- state
VARIABLES
    now,               \* Date.now(): the wall clock, in ms
    timeControlStore,  \* TimeControlService.timeControlStore: id -> TimeControlData
    terminated,        \* the ids terminateSimulation has answered success for
    last,              \* the latest call: operation, id, arguments, error, result
    inflight,          \* the requests in flight: caller -> position, readings, result
    initial,           \* the clock record the requests in flight started from
    query,             \* the latest market data query
    snapshot,          \* the market data answered to it
    invoked,           \* the swap providers' methods the latest swap call invoked
    answer,            \* what the latest call of a swap or agent service answered
    memorySpaceStore,  \* SharedMemoryService.memorySpaceStore: spaceId -> MemorySpaceData
    accessControlStore,   \* SharedMemoryService.accessControlStore: spaceId -> AccessControlData
    knowledgeEntryStore,  \* SharedMemoryService.knowledgeEntryStore: entryId -> KnowledgeEntryData
    channelStore,      \* CommunicationService.channelStore: channelId -> ChannelData
    rateLimitStore     \* RateLimitingService.rateLimitStore: agentId -> AgentRateLimitData

\* The variables of the clock and of its orchestrator.
clockVars == <<now, timeControlStore, terminated, last>>
\* The variables of the shared memory service.
memoryVars == <<memorySpaceStore, accessControlStore, knowledgeEntryStore>>
\* The variables of the swap service and of the agent services.
agentVars == <<invoked, answer, memoryVars, channelStore, rateLimitStore>>
\* The variables the sequential clock specification leaves alone.
outside == <<inflight, initial, query, snapshot, agentVars>>
\* The variables of the market data services.
marketVars == <<query, snapshot>>

vars == <<now, timeControlStore, terminated, last, inflight, initial, query, snapshot,
          agentVars>>

\* ------------------------------------------------------ pure functions
\* JavaScript truthiness of a number: undefined, NaN and 0 are falsy.
Falsy(n) == n.k \in {"undefined", "nan"} \/ (n.k = "num" /\ n.v = 0)

\* params.timeScale || 1.0
OrDefault(n) == IF Falsy(n) THEN Num(defaultTimeScale) ELSE n

\* ToIntegerOrInfinity of the rational n/d (d > 0): truncation toward zero,
\* which is what Date.prototype.setTime (TimeClip) does to its argument.
TruncDiv(n, d) == IF n >= 0 THEN n \div d ELSE 0 - ((0 - n) \div d)

Min(a, b) == IF a < b THEN a ELSE b
Max(a, b) == IF a > b THEN a ELSE b

\* validateTimeScale without the clamp into [minTimeScale, maxTimeScale].
validateTimeScale_NoClamp(n) ==
    IF n.k \in {"nan", "undefined"} \/ n.k = "ninf" \/ (n.k = "num" /\ n.v <= 0)
        THEN [ok |-> FALSE, v |-> 0]
    ELSE IF n.k = "inf"
        THEN [ok |-> TRUE, v |-> maxTimeScale]
    ELSE [ok |-> TRUE, v |-> n.v]

\* validateTimeScale: [ok, v]; ok is FALSE where the code throws.
validateTimeScale(n) ==
    IF n.k \in {"nan", "undefined"} \/ n.k = "ninf" \/ (n.k = "num" /\ n.v <= 0)
        THEN [ok |-> FALSE, v |-> 0]
    ELSE IF n.k = "inf"
        THEN [ok |-> TRUE, v |-> Max(minTimeScale, maxTimeScale)]
    ELSE [ok |-> TRUE, v |-> Max(minTimeScale, Min(maxTimeScale, n.v))]

\* updateCurrentTime that forgets to move lastUpdateRealTime to now.
updateCurrentTime_KeepsLastUpdate(rec, w) ==
    [rec EXCEPT
        !.currentTime =
            TruncDiv(rec.currentTime * ScaleDen
                        + (w - rec.lastUpdateRealTime) * rec.timeScale,
                     ScaleDen)]

\* updateCurrentTime that takes the elapsed time with the wrong sign.
updateCurrentTime_Backward(rec, w) ==
    [rec EXCEPT
        !.currentTime =
            TruncDiv(rec.currentTime * ScaleDen
                        + (rec.lastUpdateRealTime - w) * rec.timeScale,
                     ScaleDen),
        !.lastUpdateRealTime = w]

\* updateCurrentTime: the record after the lazy advance at wall instant w.
\* currentTime is kept as an ISO string of millisecond resolution, so the
\* sum is cut to a whole number of milliseconds.
updateCurrentTime(rec, w) ==
    [rec EXCEPT
        !.currentTime =
            TruncDiv(rec.currentTime * ScaleDen
                        + (w - rec.lastUpdateRealTime) * rec.timeScale,
                     ScaleDen),
        !.lastUpdateRealTime = w]

\* The sync every reading or mutating handler starts with.
SyncIfRunning(rec, w) ==
    IF rec.status = "running" THEN updateCurrentTime(rec, w) ELSE rec

\* The fields of TimeInfoDto / TimeControlConfigDto / SimulationStateDto
\* that carry clock values.
TimeInfo(rec) ==
    [currentTime |-> rec.currentTime, timeScale |-> rec.timeScale,
     status |-> rec.status]
NoRet == [currentTime |-> 0, timeScale |-> 0, status |-> "none"]

\* getSimulationState: a mock state, whatever the id: the wall clock now,
\* time scale 1.0, status running.
MockState(w) ==
    [currentTime |-> w, timeScale |-> defaultTimeScale, status |-> "running"]

\* HistoricalService.initialize: validatePeriod, then validateTokens.
HistoricalInitialize(src) ==
    IF ~src.periodOk THEN "InvalidPeriod"
    ELSE IF src.tokens = 0 THEN "NoTokens"
    ELSE "none"

\* ScenariosService.initialize: validateScenarioType.
ScenarioInitialize(src) ==
    IF ~src.scenarioOk THEN "InvalidScenarioType" ELSE "none"

\* The record of a call: the operation, the id it names, the error it fails
\* with ("none" when it succeeds), the wall instant it ran at, what it
\* returns, and the operation the call before it was (as far as that one
\* named the same id).
Call(op, id, err, ret) ==
    [op |-> op, id |-> id, err |-> err, wall |-> now, ret |-> ret,
     after |-> IF last.id = id THEN last.op ELSE "none"]
NoCall == [op |-> "none", id |-> "none", err |-> "none", wall |-> 0, ret |-> NoRet,
           after |-> "none"]

Known(id) == id \in DOMAIN timeControlStore

\* A call that fails before it touches anything.
Fails(op, id, err) ==
    /\ last' = Call(op, id, err, NoRet)
    /\ UNCHANGED <<now, timeControlStore, terminated, outside>>

\* A call that leaves rec as the record of id and returns its clock values.
Returns(op, id, rec) ==
    /\ timeControlStore' = [timeControlStore EXCEPT ![id] = rec]
    /\ last' = Call(op, id, "none", TimeInfo(rec))
    /\ UNCHANGED <<now, terminated, outside>>

\* ------------------------------------------------- requests in flight
\* The callers whose requests on one simulation overlap.
Callers == {"c1", "c2"}

\* A request: the operation and its argument (a time scale, a timestamp).
Request(op, arg) == [op |-> op, arg |-> arg]
NoRequest == Request("none", Undefined)

\* The SimulationService operations that call the clock, await it, and then
\* await getSimulationState.
ProxyOps == {"pause", "resume", "reset"}

\* The requests a caller may send: the SimulationController's and the
\* TimeControlController's operations on an initialized simulation.
Requests ==
    {Request(op, Undefined) :
        op \in {"getState", "getCurrentTime"} \cup ProxyOps}
    \cup {Request("setTimeScale", s) : s \in {Num(5), Num(200), Num(0)}}
    \cup {Request("setCurrentTime", t) : t \in {Ts(7), InvalidTs}}

\* A caller's request: pc is where it stands (idle, awaitClock after the
\* awaited clock call, awaitState after the awaited getSimulationState,
\* done), w1 and w2 are the Date.now() readings of the clock call and of
\* getSimulationState, err and ret are what it has answered.
Idle ==
    [pc |-> "idle", req |-> NoRequest, w1 |-> 0, w2 |-> 0,
     err |-> "none", ret |-> NoRet]

\* No market data query made yet.
NoQuery == [service |-> "none"]
NoSnapshot == [err |-> "none"]
MarketIdle ==
    /\ query = NoQuery
    /\ snapshot = NoSnapshot

\* No swap or agent service called yet: their stores are empty.
NoAnswer == [service |-> "none"]
AgentIdle ==
    /\ invoked = << >>
    /\ answer = NoAnswer
    /\ memorySpaceStore = << >>
    /\ accessControlStore = << >>
    /\ knowledgeEntryStore = << >>
    /\ channelStore = << >>
    /\ rateLimitStore = << >>

\* No request in flight, no market data query made, no service called.
OutsideIdle ==
    /\ inflight = [c \in Callers |-> Idle]
    /\ initial = NoRet
    /\ MarketIdle
    /\ AgentIdle

\* ------------------------------------------------------------ actions
Init ==
    /\ now = 0
    /\ timeControlStore = << >>
    /\ terminated = {}
    /\ last = NoCall
    /\ OutsideIdle

\* The wall clock advances.
Tick ==
    /\ now < MaxWall
    /\ now' = now + 1
    /\ UNCHANGED <<timeControlStore, terminated, last, outside>>

\* TimeControlService.initialize, as far as its store is concerned: the
\* record it stores, or the error it throws.
TimeControlInitialize(id, startTime, timeScale) ==
    LET scale == validateTimeScale(OrDefault(timeScale))
        start == IF startTime.k = "absent" THEN now ELSE startTime.v
    IN  IF ~scale.ok THEN [err |-> "InvalidTimeScale", rec |-> NoRet]
        ELSE IF startTime.k = "invalid" THEN [err |-> "RangeError", rec |-> NoRet]
        ELSE [err |-> "none",
              rec |-> [simulationId |-> id, startTime |-> start,
                       currentTime |-> start, timeScale |-> scale.v,
                       status |-> "running", lastUpdateRealTime |-> now]]

\* SimulationService.initializeSimulation.
InitializeSimulationWith(id, startTime, timeScale, src) ==
    LET tc == TimeControlInitialize(id, startTime, OrDefault(timeScale))
        ds == IF src.type = "historical" THEN HistoricalInitialize(src)
              ELSE IF src.type = "scenario" THEN ScenarioInitialize(src)
              ELSE "UnsupportedType"
    IN  IF tc.err # "none"
            THEN Fails("initialize", id, tc.err)
        ELSE
            /\ timeControlStore' =
                   [i \in DOMAIN timeControlStore \cup {id} |->
                       IF i = id THEN tc.rec ELSE timeControlStore[i]]
            /\ last' = Call("initialize", id, ds,
                            IF ds = "none" THEN TimeInfo(tc.rec) ELSE NoRet)
            /\ terminated' = terminated \ {id}
            /\ UNCHANGED <<now, outside>>

\* TimeControlService.getCurrentTime.
GetCurrentTime(id) ==
    IF ~Known(id) THEN Fails("getCurrentTime", id, "NotFound")
    ELSE Returns("getCurrentTime", id, SyncIfRunning(timeControlStore[id], now))

\* setTimeScale without the sync before the change: the new scale is applied
\* to the time elapsed before the call.
SetTimeScale_NoSync(id, timeScale) ==
    IF ~Known(id) THEN Fails("setTimeScale", id, "NotFound")
    ELSE
        LET scale == validateTimeScale(timeScale)
        IN  IF ~scale.ok
                THEN Fails("setTimeScale", id, "InvalidTimeScale")
            ELSE Returns("setTimeScale", id,
                         [timeControlStore[id] EXCEPT !.timeScale = scale.v])

\* TimeControlService.setTimeScale: the sync, then the validation, which may
\* throw after the sync has been stored.
SetTimeScale(id, timeScale) ==
    IF ~Known(id) THEN Fails("setTimeScale", id, "NotFound")
    ELSE
        LET synced == SyncIfRunning(timeControlStore[id], now)
            scale == validateTimeScale(timeScale)
        IN  IF ~scale.ok
                THEN /\ timeControlStore' = [timeControlStore EXCEPT ![id] = synced]
                     /\ last' = Call("setTimeScale", id, "InvalidTimeScale", NoRet)
                     /\ UNCHANGED <<now, terminated, outside>>
            ELSE Returns("setTimeScale", id,
                         [synced EXCEPT !.timeScale = scale.v,
                                        !.lastUpdateRealTime = now])

\* TimeControlService.pause.
Pause(id) ==
    [SyncIfRunning(timeControlStore[id], now) EXCEPT !.status = "paused"]

\* resume that keeps lastUpdateRealTime: the time spent paused is caught up.
Resume_CatchesUp(id) ==
    [timeControlStore[id] EXCEPT !.status = "running"]

\* TimeControlService.resume.
Resume(id) ==
    [timeControlStore[id] EXCEPT !.status = "running", !.lastUpdateRealTime = now]

\* reset that puts currentTime back and leaves the status as it is.
Reset_KeepsStatus(id) ==
    [timeControlStore[id] EXCEPT !.currentTime = timeControlStore[id].startTime]

\* TimeControlService.reset.
Reset(id) ==
    [timeControlStore[id] EXCEPT !.currentTime = timeControlStore[id].startTime,
                                 !.status = "paused"]

\* setCurrentTime that keeps lastUpdateRealTime.
SetCurrentTime_KeepsLastUpdate(id, timestamp) ==
    IF ~Known(id) THEN Fails("setCurrentTime", id, "NotFound")
    ELSE IF timestamp.k # "ms"
        THEN Fails("setCurrentTime", id, "InvalidTimestamp")
    ELSE Returns("setCurrentTime", id,
                 [timeControlStore[id] EXCEPT !.currentTime = timestamp.v])

\* TimeControlService.setCurrentTime.
SetCurrentTime(id, timestamp) ==
    IF ~Known(id) THEN Fails("setCurrentTime", id, "NotFound")
    ELSE IF timestamp.k # "ms"
        THEN Fails("setCurrentTime", id, "InvalidTimestamp")
    ELSE Returns("setCurrentTime", id,
                 [timeControlStore[id] EXCEPT !.currentTime = timestamp.v,
                                              !.lastUpdateRealTime = now])

\* A SimulationService call that proxies to the clock and then answers
\* getSimulationState's mock state with the status overwritten.
Proxy(op, id, rec, status) ==
    /\ timeControlStore' = [timeControlStore EXCEPT ![id] = rec]
    /\ last' = Call(op, id, "none", [MockState(now) EXCEPT !.status = status])
    /\ UNCHANGED <<now, terminated, outside>>

\* SimulationService.pauseSimulation.
PauseSimulation(id) ==
    IF ~Known(id) THEN Fails("pause", id, "NotFound")
    ELSE Proxy("pause", id, Pause(id), "paused")

\* SimulationService.resumeSimulation.
ResumeSimulation(id) ==
    IF ~Known(id) THEN Fails("resume", id, "NotFound")
    ELSE Proxy("resume", id, Resume(id), "running")

\* SimulationService.resetSimulation.
ResetSimulation(id) ==
    IF ~Known(id) THEN Fails("reset", id, "NotFound")
    ELSE Proxy("reset", id, Reset(id), "initialized")

\* SimulationService.getSimulationState.
GetSimulationState(id) ==
    /\ last' = Call("getState", id, "none", MockState(now))
    /\ UNCHANGED <<now, timeControlStore, terminated, outside>>

\* SimulationService.terminateSimulation: answers success and releases
\* nothing.
TerminateSimulation(id) ==
    /\ last' = Call("terminate", id, "none", NoRet)
    /\ terminated' = terminated \cup {id}
    /\ UNCHANGED <<now, timeControlStore, outside>>

\* generateSimulationId yields an id no simulation has yet.
InitializeSimulation ==
    \E id \in SimIds \ DOMAIN timeControlStore, startTime \in StartInputs,
       timeScale \in ScaleInputs \cup {Undefined}, src \in SourceInputs :
        InitializeSimulationWith(id, startTime, timeScale, src)

Next ==
    \/ Tick
    \/ InitializeSimulation
    \/ \E id \in SimIds : GetCurrentTime(id)
    \/ \E id \in SimIds, s \in ScaleInputs : SetTimeScale(id, s)
    \/ \E id \in SimIds, t \in TimeInputs : SetCurrentTime(id, t)
    \/ \E id \in SimIds : PauseSimulation(id)
    \/ \E id \in SimIds : ResumeSimulation(id)
    \/ \E id \in SimIds : ResetSimulation(id)
    \/ \E id \in SimIds : GetSimulationState(id)
    \/ \E id \in SimIds : TerminateSimulation(id)

Spec == Init /\ [][Next]_vars

\* ------------------------------------------- overlapping requests
\* The handlers are async functions on one event loop: a handler runs
\* without interruption up to its next await, and other requests' segments
\* and wall-clock ticks may come between two segments.  Date.now() readings
\* are inputs of the segment that takes them.

\* The simulation the overlapping requests name.
ConcSim == CHOOSE id \in SimIds : TRUE

\* A TimeControlService method on record rec at wall instant w: the record
\* it leaves, the error it throws and the TimeInfoDto it returns.  The
\* methods have no await inside.
TimeControlCall(rec, req, w) ==
    LET synced == SyncIfRunning(rec, w)
        Ok(r) == [rec |-> r, err |-> "none", ret |-> TimeInfo(r)]
    IN  CASE req.op = "getCurrentTime" -> Ok(synced)
          [] req.op = "setTimeScale" ->
                LET scale == validateTimeScale(req.arg)
                IN  IF ~scale.ok
                        THEN [rec |-> synced, err |-> "InvalidTimeScale",
                              ret |-> NoRet]
                    ELSE Ok([synced EXCEPT !.timeScale = scale.v,
                                           !.lastUpdateRealTime = w])
          [] req.op = "pause" -> Ok([synced EXCEPT !.status = "paused"])
          [] req.op = "resume" ->
                Ok([rec EXCEPT !.status = "running", !.lastUpdateRealTime = w])
          [] req.op = "reset" ->
                Ok([rec EXCEPT !.currentTime = rec.startTime,
                               !.status = "paused"])
          [] req.op = "setCurrentTime" ->
                IF req.arg.k # "ms"
                    THEN [rec |-> rec, err |-> "InvalidTimestamp", ret |-> NoRet]
                ELSE Ok([rec EXCEPT !.currentTime = req.arg.v,
                                    !.lastUpdateRealTime = w])

\* The status pauseSimulation, resumeSimulation and resetSimulation write
\* into the state they return.
ProxyStatus(op) ==
    CASE op = "pause" -> "paused"
      [] op = "resume" -> "running"
      [] op = "reset" -> "initialized"

\* A getSimulationState that reads the clock record when it runs.
StateAfterClock_ReadsClock(rec, w) == TimeInfo(SyncIfRunning(rec, w))

\* The state a proxy obtains from getSimulationState after the clock call,
\* the clock record being rec by then: the mock state, which reads no record.
StateAfterClock(rec, w) == MockState(w)

\* The clock has been initialized at wall instant 0 and possibly paused;
\* no request has been sent yet.
ConcInit ==
    /\ now = 0
    /\ terminated = {}
    /\ last = NoCall
    /\ inflight = [c \in Callers |-> Idle]
    /\ MarketIdle
    /\ AgentIdle
    /\ \E s \in {Num(50), Num(200)}, paused \in BOOLEAN :
          LET rec == TimeControlInitialize(ConcSim, Ts(0 - 3), s).rec
          IN  /\ initial = IF paused THEN [rec EXCEPT !.status = "paused"] ELSE rec
              /\ timeControlStore = [i \in {ConcSim} |-> initial]

\* A caller's request arrives: the handler runs to its first await.  The
\* clock operations and getSimulationState finish there; a proxy has made
\* its clock call and awaits it.
StartRequest(c, req) ==
    /\ inflight[c].pc = "idle"
    /\ LET r == IF req.op = "getState"
                    THEN [rec |-> timeControlStore[ConcSim], err |-> "none",
                          ret |-> MockState(now)]
                ELSE TimeControlCall(timeControlStore[ConcSim], req, now)
       IN  /\ timeControlStore' = [timeControlStore EXCEPT ![ConcSim] = r.rec]
           /\ inflight' =
                 [inflight EXCEPT ![c] =
                     IF req.op \in ProxyOps
                         THEN [pc |-> "awaitClock", req |-> req, w1 |-> now,
                               w2 |-> 0, err |-> "none", ret |-> NoRet]
                     ELSE [pc |-> "done", req |-> req, w1 |-> now, w2 |-> now,
                           err |-> r.err, ret |-> r.ret]]
    /\ UNCHANGED <<now, terminated, last, initial, marketVars, agentVars>>

\* A proxy resumes after the clock call: it calls getSimulationState and
\* awaits it.
AfterClock(c) ==
    /\ inflight[c].pc = "awaitClock"
    /\ inflight' = [inflight EXCEPT ![c].pc = "awaitState",
                                    ![c].w2 = now,
                                    ![c].ret = StateAfterClock(timeControlStore[ConcSim], now)]
    /\ UNCHANGED <<clockVars, initial, marketVars, agentVars>>

\* A proxy resumes after getSimulationState: it overwrites the status and
\* returns.
AfterState(c) ==
    /\ inflight[c].pc = "awaitState"
    /\ inflight' = [inflight EXCEPT ![c].pc = "done",
                                    ![c].ret.status = ProxyStatus(inflight[c].req.op)]
    /\ UNCHANGED <<clockVars, initial, marketVars, agentVars>>

\* Wall-clock ticks come between segments.
ConcNext ==
    \/ Tick
    \/ \E c \in Callers, req \in Requests : StartRequest(c, req)
    \/ \E c \in Callers : AfterClock(c)
    \/ \E c \in Callers : AfterState(c)

ConcSpec == ConcInit /\ [][ConcNext]_vars

\* The handler of request f run alone on record rec with f's Date.now()
\* readings: the record it leaves and what it answers.
WholeRequest(rec, f) ==
    IF f.req.op = "getState"
        THEN [rec |-> rec, err |-> "none", ret |-> MockState(f.w1)]
    ELSE LET r == TimeControlCall(rec, f.req, f.w1)
         IN  IF f.req.op \in ProxyOps
                 THEN [rec |-> r.rec, err |-> "none",
                       ret |-> [StateAfterClock(r.rec, f.w2) EXCEPT
                                   !.status = ProxyStatus(f.req.op)]]
             ELSE r

\* The sequential execution of the callers' requests in the given order
\* from record rec: the final record, and whether every answer is the one
\* the caller got.
RECURSIVE Replay(_, _)
Replay(rec, order) ==
    IF order = << >> THEN [rec |-> rec, same |-> TRUE]
    ELSE LET f == inflight[Head(order)]
             r == WholeRequest(rec, f)
             rest == Replay(r.rec, Tail(order))
         IN  [rec |-> rest.rec,
              same |-> rest.same /\ r.err = f.err /\ r.ret = f.ret]

\* The orders in which the callers' requests can be run one after another.
Orders ==
    {o \in [1..Cardinality(Callers) -> Callers] :
        \A i, j \in DOMAIN o : o[i] = o[j] => i = j}

\* -------------------------------------------------------- market data
\* Scenario parameters are JavaScript numbers or undefined: intensity,
\* recovery_speed, range_width and direction_bias in units of 1/ScaleDen,
\* duration in whole seconds.  Timestamps are in ms.
Params(intensity, duration, recovery_speed, direction_bias) ==
    [intensity |-> intensity, duration |-> duration,
     recovery_speed |-> recovery_speed, range_width |-> Undefined,
     direction_bias |-> direction_bias]

\* x || dflt.
OrElse(x, dflt) == IF Falsy(x) THEN Num(dflt) ELSE x

\* validateScenarioType's list.
validScenarios ==
    {"bull_market", "bear_market", "market_crash", "sideways_market",
     "high_volatility", "liquidity_crisis", "flash_crash"}

\* getScenarioConfig: the configuration used (configs[scenarioType] ||
\* configs['bull_market']) and its duration in seconds.
getScenarioConfig(scenarioType, parameters) ==
    LET key == IF scenarioType \in validScenarios THEN scenarioType
               ELSE "bull_market"
    IN  [config |-> key,
         duration |->
            CASE key = "bull_market" -> OrElse(parameters.duration, 7 * 24 * 60 * 60)
              [] key = "bear_market" -> OrElse(parameters.duration, 14 * 24 * 60 * 60)
              [] key = "market_crash" -> Num(24 * 60 * 60)
              [] key = "sideways_market" -> OrElse(parameters.duration, 30 * 24 * 60 * 60)
              [] key = "high_volatility" -> OrElse(parameters.duration, 3 * 24 * 60 * 60)
              [] key = "liquidity_crisis" -> OrElse(parameters.duration, 2 * 24 * 60 * 60)
              [] key = "flash_crash" -> Num(4 * 60 * 60)]

\* A progress value: n milliseconds out of d seconds, that is n / (d * 1000),
\* or NaN.
Progress(n, d) == [k |-> "num", n |-> n, d |-> d]
NaNProgress == [k |-> "nan", n |-> 0, d |-> 1]
ProgressZero == Progress(0, 1)
ProgressOne == Progress(1000, 1)

\* getScenarioData's progress:
\* Math.min(1, Math.max(0, (currentTime - startTime) / (duration * 1000))).
\* An unparsable date has getTime() NaN, and Math.max and Math.min answer NaN
\* for a NaN argument; a finite difference over an infinite duration is 0.
ScenarioProgress(startTime, currentTime, duration) ==
    IF startTime.k # "ms" \/ currentTime.k # "ms" THEN NaNProgress
    ELSE IF duration.k # "num" THEN ProgressZero
    ELSE LET delta == currentTime.v - startTime.v
             n == IF duration.v < 0 THEN 0 - delta ELSE delta
             d == IF duration.v < 0 THEN 0 - duration.v ELSE duration.v
         IN  IF n <= 0 THEN ProgressZero
             ELSE IF n \div 1000 >= d THEN ProgressOne
             ELSE Progress(n, d)

\* ---------------------------------------------------- token base price
\* A string is the sequence of its UTF-16 code units (charCodeAt).
TokBtc == <<98, 116, 99>>    \* "btc"
TokWbtc == <<87, 66, 84, 67>>    \* "WBTC"
TokEth == <<101, 116, 104>>    \* "eth"
TokUsdc == <<117, 115, 100, 99>>    \* "usdc"
TokUsdt == <<117, 115, 100, 116>>    \* "usdt"
TokSol == <<115, 111, 108>>    \* "sol"
TokEthBtc == <<101, 116, 104, 98, 116, 99>>    \* "ethbtc"
TokPolygene == <<112, 111, 108, 121, 103, 101, 110, 101, 108, 117, 98, 114, 105, 99, 97, 110, 116, 115>>    \* "polygenelubricants"
TokBtcMin == <<98, 116, 99, 98, 116, 107, 98, 110, 120, 118, 114>>    \* "btcbtkbnxvr"
TokEthMin == <<101, 116, 104, 97, 105, 112, 120, 117, 122, 111, 97>>    \* "ethaipxuzoa"
TokUsdcMin == <<117, 115, 100, 99, 97, 103, 100, 111, 118, 113, 118, 109>>    \* "usdcagdovqvm"
TokBtcHistMin == <<98, 116, 99, 97, 97, 111, 117, 119, 116, 108, 115>>    \* "btcaaouwtls"

\* The token identifiers queried: the four regimes, an upper-case id, an id
\* of two regimes, and ids whose rolling hash wraps, is negative, or is
\* -2^31 (TokBtcHistMin with the timestamp of instant 0 appended).
TokenInputs ==
    {TokBtc, TokWbtc, TokEth, TokUsdc, TokUsdt, TokSol,
     TokEthBtc, TokPolygene, TokBtcMin, TokEthMin, TokUsdcMin, TokBtcHistMin}

\* An int32 as its two's-complement bit pattern in two 16-bit halves, hi
\* and lo; the value is negative when hi >= 2^15.
Half == 65536
Int32(hi, lo) == [hi |-> hi, lo |-> lo]

\* hash << 5: the low 32 bits of hash * 32.
ShiftLeft5(h) ==
    Int32(((h.hi * 32) + ((h.lo * 32) \div Half)) % Half, (h.lo * 32) % Half)

\* One round of simpleHash: hash = ((hash << 5) - hash) + char, then
\* hash = hash & hash, which keeps the low 32 bits of the sum.
HashStep(h, char) ==
    LET s == ShiftLeft5(h)
        lo == s.lo - h.lo + char
        hi == s.hi - h.hi + (lo \div Half)
    IN  Int32(hi % Half, lo % Half)

\* The loop of simpleHash over the characters of str, from hash value h
\* (each round's value is computed once, then bound).
RECURSIVE HashLoop(_, _)
HashLoop(h, str) ==
    IF str = << >> THEN h
    ELSE CHOOSE r \in {HashLoop(x, Tail(str)) : x \in {HashStep(h, Head(str))}} : TRUE

\* Math.abs of an int32: the magnitude, 0 .. 2^31, in two halves.
MathAbs(h) ==
    IF h.hi < Half \div 2 THEN h
    ELSE Int32(Half - h.hi - (IF h.lo = 0 THEN 0 ELSE 1), (Half - h.lo) % Half)

\* simpleHash (the same method in HistoricalService and ScenariosService).
simpleHash(str) == MathAbs(HashLoop(Int32(0, 0), str))

\* hash % m, for 0 < m <= 20000.
HashMod(h, m) == ((h.hi % m) * (Half % m) + h.lo) % m

\* String.prototype.toLowerCase, for identifiers of ASCII characters.
toLowerCase(str) ==
    [i \in DOMAIN str |-> IF str[i] >= 65 /\ str[i] <= 90 THEN str[i] + 32 ELSE str[i]]

\* String.prototype.includes.
includes(str, sub) ==
    \E i \in 1..(Len(str) - Len(sub) + 1) : SubSeq(str, i, i + Len(sub) - 1) = sub

\* Prices are in units of 1/PriceDen (cents).
PriceDen == 100

\* The bands with the 'eth' regime tried before the 'btc' regime.
BandPrice_EthFirst(token, hash) ==
    LET lower == toLowerCase(token)
    IN  IF includes(lower, <<101, 116, 104>>)
            THEN (1500 + HashMod(hash, 2000)) * PriceDen
        ELSE IF includes(lower, <<98, 116, 99>>)
            THEN (30000 + HashMod(hash, 20000)) * PriceDen
        ELSE IF includes(lower, <<117, 115, 100, 99>>) \/ includes(lower, <<117, 115, 100, 116>>)
            THEN 98 + HashMod(hash, 5)
        ELSE 10 + (HashMod(hash, 1000) * 10)

\* The regime bands shared by the two getBasePriceForToken methods: the
\* base price of token for hash value hash.
BandPrice(token, hash) ==
    LET lower == toLowerCase(token)
    IN  IF includes(lower, <<98, 116, 99>>)
            THEN (30000 + HashMod(hash, 20000)) * PriceDen
        ELSE IF includes(lower, <<101, 116, 104>>)
            THEN (1500 + HashMod(hash, 2000)) * PriceDen
        ELSE IF includes(lower, <<117, 115, 100, 99>>) \/ includes(lower, <<117, 115, 100, 116>>)
            THEN 98 + HashMod(hash, 5)
        ELSE 10 + (HashMod(hash, 1000) * 10)

\* ScenariosService.getBasePriceForToken.
Scenarios_getBasePriceForToken(token) == BandPrice(token, simpleHash(token))

\* Two decimal digits and three decimal digits, as code units.
Digits2(n) == <<48 + (n \div 10), 48 + (n % 10)>>
Digits3(n) == <<48 + (n \div 100), 48 + ((n \div 10) % 10), 48 + (n % 10)>>

\* Date.prototype.toISOString for an instant of the first minute after the
\* epoch: "1970-01-01T00:00:SS.mmmZ".
toISOString(ms) ==
    <<49, 57, 55, 48, 45, 48, 49, 45, 48, 49, 84, 48, 48, 58, 48, 48, 58>>
        \o Digits2(ms \div 1000) \o <<46>> \o Digits3(ms % 1000) \o <<90>>

\* HistoricalService.getBasePriceForToken.
Historical_getBasePriceForToken(token, timestamp) ==
    BandPrice(token, simpleHash(token \o toISOString(timestamp)))

\* ---------------------------------------------------- scenario formulas
\* Modifiers and market metrics are JavaScript numbers in units of 1/ModDen
\* (or NaN).  The queries are drawn so that progress is a whole number of
\* eighths; the terms linear in intensity and progress are then exact, and
\* Math.sin and Math.exp are taken to the nearest 1/ModDen.
ModDen == 8000

\* progress in eighths.
Eighths(progress) == progress.n \div (125 * progress.d)

\* Math.sin(j * Math.PI / 8), in units of 1/ModDen.
Sin8(j) ==
    <<0, 3061, 5657, 7391, 8000, 7391, 5657, 3061,
      0, 0 - 3061, 0 - 5657, 0 - 7391, 0 - 8000, 0 - 7391, 0 - 5657, 0 - 3061>>[(j % 16) + 1]

\* Math.exp(-(num / den)), in units of 1/ModDen, at the arguments the
\* formulas take over the eighths.
ExpNeg(num, den) ==
    CASE den = 8 /\ num = 0 -> 8000
      [] den = 8 /\ num = 25 -> 351
      [] den = 8 /\ num = 40 -> 54
      [] den = 64 /\ num = 5 -> 7399
      [] den = 64 /\ num = 10 -> 6843
      [] den = 64 /\ num = 40 -> 4282
      [] den = 64 /\ num = 80 -> 2292
      [] den = 64 /\ num = 90 -> 1960
      [] den = 64 /\ num = 160 -> 657
      [] den = 313600 /\ num = 640 -> 7984
      [] den = 313600 /\ num = 84640 -> 6108
      [] den = 313600 /\ num = 116640 -> 5515
      [] den = 313600 /\ num = 282240 -> 3253
      [] den = 313600 /\ num = 368640 -> 2469
      [] den = 313600 /\ num = 852640 -> 528
      [] den = 313600 /\ num = 1536640 -> 60

\* parameters.intensity || 0.5, in units of 1/ScaleDen.
Intensity(parameters) == OrElse(parameters.intensity, 50).v

\* market_crash: crashPoint = Math.min(1, progress / 0.2), in eighths.
CrashPoint8(p8) == Min(8, 5 * p8)
\* market_crash: recoveryPoint = Math.max(0, (progress - 0.2) / 0.8), in 1/32.
RecoveryPoint32(p8) == Max(0, 5 * p8 - 8)
\* flash_crash: flashCrashPhase, in eighths: 0 below progress 0.1,
\* (progress - 0.1) / 0.2 below 0.3, 1 from there on.
FlashCrashPhase8(p8) == IF p8 = 0 THEN 0 ELSE IF p8 <= 2 THEN 5 * p8 - 4 ELSE 8
\* flash_crash: flashCrashRecovery, in 1/56: 0 below progress 0.3,
\* (progress - 0.3) / 0.7 from there on.
FlashCrashRecovery56(p8) == IF p8 <= 2 THEN 0 ELSE 10 * p8 - 24

\* getPriceModifier.  A NaN progress makes every case NaN but the default;
\* flash_crash multiplies by parameters.recovery_speed as given.
getPriceModifier(scenarioType, parameters, progress) ==
    LET i == Intensity(parameters)
        p8 == Eighths(progress)
    IN  IF scenarioType \notin validScenarios THEN Num(ModDen)
        ELSE IF progress.k = "nan" THEN NaN
        ELSE CASE scenarioType = "bull_market" -> Num(ModDen + i * p8 * 10)
               [] scenarioType = "bear_market" -> Num(ModDen - i * p8 * 7)
               [] scenarioType = "market_crash" ->
                    LET recoverySpeed == OrElse(parameters.recovery_speed, 30).v
                        crashEffect ==
                            TruncDiv(i * (ModDen - ExpNeg(5 * CrashPoint8(p8), 8)), ScaleDen)
                    IN  Num(ModDen - crashEffect
                            + TruncDiv(crashEffect * recoverySpeed * RecoveryPoint32(p8),
                                       32 * ScaleDen))
               [] scenarioType = "sideways_market" ->
                    LET rangeWidth == OrElse(parameters.range_width, 10).v
                    IN  Num(ModDen + TruncDiv(rangeWidth * Sin8(10 * p8), ScaleDen))
               [] scenarioType = "high_volatility" ->
                    LET directionBias == OrElse(parameters.direction_bias, 0).v
                    IN  Num(ModDen + TruncDiv(i * 5 * Sin8(20 * p8), 10 * ScaleDen)
                            + directionBias * p8 * 10)
               [] scenarioType = "liquidity_crisis" ->
                    Num(ModDen - i * p8 * 3
                        + TruncDiv(i * 2 * Sin8(15 * p8), 10 * ScaleDen))
               [] scenarioType = "flash_crash" ->
                    IF parameters.recovery_speed.k # "num" THEN NaN
                    ELSE Num(ModDen - 7 * i * FlashCrashPhase8(p8)
                             + TruncDiv(i * parameters.recovery_speed.v
                                          * FlashCrashRecovery56(p8), ScaleDen))

\* getVolumeModifier.
getVolumeModifier(scenarioType, parameters, progress) ==
    LET i == Intensity(parameters)
        p8 == Eighths(progress)
    IN  IF scenarioType \notin validScenarios THEN Num(ModDen)
        ELSE IF progress.k = "nan" THEN NaN
        ELSE CASE scenarioType = "bull_market" -> Num(ModDen + i * p8 * 10)
               [] scenarioType = "bear_market" ->
                    Num(ModDen + TruncDiv(5 * i * p8 * (8 - p8), 4))
               [] scenarioType = "market_crash" ->
                    Num(ModDen + TruncDiv(3 * i
                            * ExpNeg(10 * (CrashPoint8(p8) - 4) * (CrashPoint8(p8) - 4), 64),
                            ScaleDen))
               [] scenarioType = "sideways_market" ->
                    Num(5600 + TruncDiv(Sin8(10 * p8) * Sin8(10 * p8), 2 * ModDen))
               [] scenarioType = "high_volatility" ->
                    Num(12000 + TruncDiv(i * Sin8(20 * p8), ScaleDen))
               [] scenarioType = "liquidity_crisis" -> Num(ModDen - i * p8 * 7)
               [] scenarioType = "flash_crash" ->
                    LET phase == FlashCrashPhase8(p8) - 4
                        recovery == 10 * FlashCrashRecovery56(p8) - 168
                    IN  Num(ModDen
                            + TruncDiv(4 * i * ExpNeg(10 * phase * phase, 64), ScaleDen)
                            + TruncDiv(2 * i * ExpNeg(10 * recovery * recovery, 313600),
                                       ScaleDen))

\* getDepthModifier.
getDepthModifier(scenarioType, parameters, progress) ==
    LET i == Intensity(parameters)
        p8 == Eighths(progress)
    IN  IF scenarioType \notin validScenarios THEN Num(ModDen)
        ELSE IF progress.k = "nan" THEN NaN
        ELSE CASE scenarioType = "bull_market" -> Num(ModDen + i * p8 * 5)
               [] scenarioType = "bear_market" -> Num(ModDen - i * p8 * 3)
               [] scenarioType = "market_crash" ->
                    Num(ModDen - TruncDiv(8 * i
                            * ExpNeg(5 * (CrashPoint8(p8) - 4) * (CrashPoint8(p8) - 4), 64),
                            10 * ScaleDen))
               [] scenarioType = "sideways_market" ->
                    Num(ModDen + TruncDiv(Sin8(10 * p8), 10))
               [] scenarioType = "high_volatility" ->
                    Num(ModDen + TruncDiv(i * 5 * Sin8(15 * p8), 10 * ScaleDen))
               [] scenarioType = "liquidity_crisis" -> Num(ModDen - i * p8 * 8)
               [] scenarioType = "flash_crash" ->
                    Num(ModDen - 9 * i * FlashCrashPhase8(p8)
                        + i * FlashCrashRecovery56(p8))

\* The market metrics generateMarketData sets, by scenario type; an
\* unrecognized type takes the default branch, which repeats bull_market's.
MarketMetrics(scenarioType, progress) ==
    LET p8 == Eighths(progress)
        Metrics(v, l, s) ==
            [volatilityIndex |-> v, liquidityIndex |-> l, sentimentIndex |-> s]
    IN  IF progress.k = "nan"
            THEN IF scenarioType = "flash_crash"
                    THEN Metrics(Num(30 * ModDen + 70 * ExpNeg(160, 64)), NaN, NaN)
                 ELSE Metrics(NaN, NaN, NaN)
        ELSE CASE scenarioType = "bear_market" ->
                    Metrics(Num(40 * ModDen + 20 * Sin8(p8)),
                            Num(60 * ModDen - 20000 * p8),
                            Num(30 * ModDen - 20000 * p8))
               [] scenarioType = "market_crash" ->
                    LET g == ExpNeg(5 * (CrashPoint8(p8) - 4) * (CrashPoint8(p8) - 4), 64)
                    IN  Metrics(Num(50 * ModDen + 50 * g),
                                Num(80 * ModDen - 60 * g),
                                Num(50 * ModDen - 40 * g))
               [] scenarioType = "sideways_market" ->
                    Metrics(Num(30 * ModDen + 10 * Sin8(10 * p8)),
                            Num(70 * ModDen + 10 * Sin8(5 * p8)),
                            Num(50 * ModDen + 10 * Sin8(8 * p8)))
               [] scenarioType = "high_volatility" ->
                    Metrics(Num(70 * ModDen + 30 * Sin8(20 * p8)),
                            Num(50 * ModDen + 20 * Sin8(15 * p8)),
                            Num(40 * ModDen + 30 * Sin8(10 * p8)))
               [] scenarioType = "liquidity_crisis" ->
                    Metrics(Num(60 * ModDen + 20000 * p8),
                            Num(70 * ModDen - 60000 * p8),
                            Num(40 * ModDen - 30000 * p8))
               [] scenarioType = "flash_crash" ->
                    LET phase == FlashCrashPhase8(p8)
                        recovery == FlashCrashRecovery56(p8)
                    IN  Metrics(Num(30 * ModDen
                                    + 70 * ExpNeg(10 * (phase - 4) * (phase - 4), 64)),
                                Num(80 * ModDen - 70000 * phase
                                    + TruncDiv(50 * ModDen * recovery, 56)),
                                Num(60 * ModDen - 50000 * phase
                                    + TruncDiv(30 * ModDen * recovery, 56)))
               [] OTHER ->
                    Metrics(Num(20 * ModDen + 10 * Sin8(p8)),
                            Num(80 * ModDen + 10 * Sin8(p8)),
                            Num(70 * ModDen + 20000 * p8))

\* ---------------------------------------------------- market snapshots
\* Math.random() is an input: a stream of draws in [0, 1), in units of
\* 1/ScaleDen, taken in call order.  "spike" differs from "low" in the
\* first call of each token's data only.
RandomStreams == {"low", "spike", "mixed"}
Draw(stream, i) ==
    CASE stream = "low" -> 0
      [] stream = "spike" -> IF i % 11 = 1 THEN 99 ELSE 0
      [] stream = "mixed" -> IF i % 2 = 1 THEN 50 ELSE 99

\* A price: base (in 1/PriceDen) times modifier (in 1/ModDen) times permille
\* (in 1/1000), kept as its factors, or NaN.
NaNPrice == [k |-> "nan", base |-> 0, modifier |-> 0, permille |-> 0]
PriceOf(base, modifier, permille) ==
    IF modifier.k # "num" THEN NaNPrice
    ELSE [k |-> "num", base |-> base, modifier |-> modifier.v, permille |-> permille]

\* getPriceChange with Math.random() answering r: a percentage in units of
\* 1/(ScaleDen * ScaleDen).  A NaN progress fails both comparisons.
getPriceChange(scenarioType, parameters, progress, r) ==
    LET i == Intensity(parameters)
        p8 == Eighths(progress)
        isNaN == progress.k = "nan"
    IN  CASE scenarioType = "bull_market" -> Num(i * 5 * (100 + r))
          [] scenarioType = "bear_market" -> Num(0 - i * 5 * (100 + r))
          [] scenarioType = "market_crash" ->
                IF ~isNaN /\ 10 * CrashPoint8(p8) < 64
                    THEN Num(0 - i * (2000 + 10 * r))
                ELSE Num(i * 5 * (100 + r))
          [] scenarioType = "sideways_market" -> Num((2 * r - 100) * i * 3)
          [] scenarioType = "high_volatility" -> Num((2 * r - 100) * i * 15)
          [] scenarioType = "liquidity_crisis" -> Num(0 - i * (800 + 7 * r))
          [] scenarioType = "flash_crash" ->
                IF ~isNaN /\ FlashCrashPhase8(p8) < 4
                    THEN Num(0 - i * (3000 + 20 * r))
                ELSE Num(i * (1500 + 10 * r))
          [] OTHER -> Num((2 * r - 100) * 500)

\* An order book whose amounts count the levels from 1.
generateOrderBook_FromLevelOne(type, price, depthModifier, stream, at) ==
    [l \in 1..5 |->
        [price |-> IF price.k # "num" THEN NaNPrice
                   ELSE [price EXCEPT !.permille =
                            IF type = "ask" THEN 1000 + l ELSE 1000 - l],
         amount |-> IF depthModifier.k # "num" THEN NaN
                    ELSE Num(TruncDiv(depthModifier.v * (20 - 3 * l)
                                        * (500 + Draw(stream, at + l)), 10))]]

\* generateOrderBook for 5 levels: level i (from 0) has price
\* price +- (i + 1) * 0.001 * price and amount
\* depthModifier * (1000 - i * 150) * (1 + 0.2 * Math.random()), the draws
\* being those after position at of the stream.
generateOrderBook(type, price, depthModifier, stream, at) ==
    [l \in 1..5 |->
        [price |-> IF price.k # "num" THEN NaNPrice
                   ELSE [price EXCEPT !.permille =
                            IF type = "ask" THEN 1000 + l ELSE 1000 - l],
         amount |-> IF depthModifier.k # "num" THEN NaN
                    ELSE Num(TruncDiv(depthModifier.v * (20 - 3 * (l - 1))
                                        * (500 + Draw(stream, at + l)), 10))]]

\* generateMarketData: the snapshot for the progress reached, at wall
\* instant w.  modifiers records the three modifiers the token data were
\* derived from.
generateMarketData(scenarioType, parameters, progress, tokens, stream, w) ==
    LET priceModifier == getPriceModifier(scenarioType, parameters, progress)
        volumeModifier == getVolumeModifier(scenarioType, parameters, progress)
        depthModifier == getDepthModifier(scenarioType, parameters, progress)
        TokenData(j) ==
            LET price == PriceOf(Scenarios_getBasePriceForToken(tokens[j]),
                                 priceModifier, 1000)
                at == 11 * (j - 1)
            IN  [token |-> tokens[j],
                 price |-> price,
                 priceChange24h |->
                    getPriceChange(scenarioType, parameters, progress,
                                   Draw(stream, at + 1)),
                 volume |-> IF volumeModifier.k # "num" THEN NaN
                            ELSE Num(125 * volumeModifier.v),
                 marketDepth |->
                    [asks |-> generateOrderBook("ask", price, depthModifier,
                                                stream, at + 1),
                     bids |-> generateOrderBook("bid", price, depthModifier,
                                                stream, at + 6)]]
    IN  [err |-> "none",
         timestamp |-> toISOString(w),
         progress |-> progress,
         marketMetrics |-> MarketMetrics(scenarioType, progress),
         modifiers |-> [price |-> priceModifier, volume |-> volumeModifier,
                        depth |-> depthModifier],
         tokens |-> [j \in 1..Len(tokens) |-> TokenData(j)]]

\* A scenario data query (ScenarioDataQueryDto) and the random stream it
\* meets.
ScenarioQuery(scenarioType, parameters, startTime, currentTime, tokens, random) ==
    [service |-> "scenario", scenarioType |-> scenarioType,
     parameters |-> parameters, startTime |-> startTime,
     currentTime |-> currentTime, tokens |-> tokens, random |-> random]

\* A historical data query (HistoricalDataQueryDto) and the random stream
\* it meets.
HistoricalQuery(timestamp, tokens, random) ==
    [service |-> "historical", timestamp |-> timestamp, tokens |-> tokens,
     random |-> random]

\* ScenariosService.getScenarioData.
GetScenarioData(q) ==
    LET scenarioConfig == getScenarioConfig(q.scenarioType, q.parameters)
        progress == ScenarioProgress(q.startTime, q.currentTime,
                                     scenarioConfig.duration)
    IN  /\ query' = q
        /\ snapshot' = generateMarketData(q.scenarioType, q.parameters, progress,
                                          q.tokens, q.random, now)
        /\ UNCHANGED <<clockVars, inflight, initial, agentVars>>

\* HistoricalService.getHistoricalData: toISOString throws a RangeError for
\* an unparsable timestamp; the market metrics take the first two draws and
\* each token the next three.
GetHistoricalData(q) ==
    /\ query' = q
    /\ snapshot' =
          IF q.timestamp.k # "ms" THEN [err |-> "RangeError"]
          ELSE [err |-> "none",
                timestamp |-> toISOString(q.timestamp.v),
                marketMetrics |->
                    [totalVolume |-> Draw(q.random, 1) * 10000000,
                     volatilityIndex |-> Draw(q.random, 2)],
                tokens |->
                    [j \in 1..Len(q.tokens) |->
                        LET basePrice ==
                                Historical_getBasePriceForToken(q.tokens[j],
                                                                q.timestamp.v)
                        IN  [token |-> q.tokens[j],
                             price |-> basePrice,
                             volume |-> Draw(q.random, 3 * j) * 100000,
                             marketCap |->
                                [price |-> basePrice,
                                 units |-> Draw(q.random, 3 * j + 1) * 10000000],
                             supply |-> Draw(q.random, 3 * j + 2) * 10000000]]]
    /\ UNCHANGED <<clockVars, inflight, initial, agentVars>>

\* The parameters queried with each scenario type: undefined or within the
\* documented ranges, and a negative duration.  Only the parameters a type
\* reads vary.
IntensityInputs == {Undefined, Num(0), Num(100)}
DurationInputs == {Undefined, Num(1), Num(0 - 1)}
ParameterInputs(scenarioType) ==
    IF scenarioType \in {"market_crash", "flash_crash"}
        THEN {Params(i, Undefined, rs, Undefined) :
                i \in IntensityInputs, rs \in {Undefined, Num(30)}}
    ELSE IF scenarioType = "high_volatility"
        THEN {Params(i, d, Undefined, b) :
                i \in IntensityInputs, d \in DurationInputs,
                b \in {Undefined, Num(0 - 100)}}
    ELSE {Params(i, d, Undefined, Undefined) :
                i \in IntensityInputs, d \in DurationInputs}

\* The scenario types queried: the seven valid ones and an unrecognized one.
ScenarioTypeInputs == validScenarios \cup {"moon_market"}

\* The token lists queried.
ScenarioTokenLists ==
    {<< >>, <<TokBtc, TokEth>>}
        \cup {<<t>> : t \in {TokEthBtc, TokUsdc, TokPolygene, TokBtcMin}}
HistoricalTokenLists ==
    {<<t>> : t \in TokenInputs} \cup {<< >>, <<TokEthBtc, TokBtcHistMin>>}

\* The currentTime values queried for a scenario of the given duration that
\* started at instant 0: before the start, at eighths of the duration, past
\* the end (instants kept below 2^31 ms), and an unparsable one.
CurrentTimeInputs(duration) ==
    LET d == IF duration.v < 0 THEN 0 - duration.v ELSE duration.v
    IN  {Ts(k * 125 * d) :
            k \in {j \in {0 - 1, 0, 2, 4, 7, 8, 9} : j * 125 <= 2147483647 \div d}}
        \cup {InvalidTs}

\* A first caller queries scenario data.
QueryScenario ==
    /\ query = NoQuery
    /\ \E scenarioType \in ScenarioTypeInputs, tokens \in ScenarioTokenLists,
          random \in RandomStreams :
         \E parameters \in ParameterInputs(scenarioType) :
           \/ \E currentTime \in
                   CurrentTimeInputs(getScenarioConfig(scenarioType, parameters).duration) :
                 GetScenarioData(ScenarioQuery(scenarioType, parameters, Ts(0),
                                               currentTime, tokens, random))
           \/ GetScenarioData(ScenarioQuery(scenarioType, parameters, InvalidTs,
                                            Ts(125), tokens, random))

\* A first caller queries historical data.
QueryHistorical ==
    /\ query = NoQuery
    /\ \E timestamp \in {Ts(0), Ts(7), Ts(1500), InvalidTs},
          tokens \in HistoricalTokenLists, random \in RandomStreams :
         GetHistoricalData(HistoricalQuery(timestamp, tokens, random))

\* The same query is made again: the services keep no state between
\* calls, and the random stream it meets is a new one.
RepeatScenario ==
    /\ query.service = "scenario"
    /\ \E random \in RandomStreams :
         GetScenarioData([query EXCEPT !.random = random])

RepeatHistorical ==
    /\ query.service = "historical"
    /\ \E random \in RandomStreams :
         GetHistoricalData([query EXCEPT !.random = random])

\* The wall clock advances between two calls, up to MaxMarketWall.
MaxMarketWall == 1
MarketTick ==
    /\ now < MaxMarketWall
    /\ now' = now + 1
    /\ UNCHANGED <<timeControlStore, terminated, last, outside>>

MarketNext ==
    \/ MarketTick
    \/ QueryScenario
    \/ QueryHistorical
    \/ RepeatScenario
    \/ RepeatHistorical

MarketSpec == Init /\ [][MarketNext]_vars

\* ---------------------------------------------------------- swap service
\* SwapService.providers: the providers registered for each chain, in the
\* order of the object literal (the order Object.entries and Object.values
\* follow).
providers ==
    [eth |-> <<"1inch", "kyber", "openfinance">>, solana |-> <<"okx", "raydium">>]

\* SwapService.signers: the chains that have a signer.
signers == {"eth", "solana"}

\* A property name every object literal inherits from Object.prototype:
\* looked up in a chain's providers it answers a function, not a provider.
InheritedKeys == {"constructor"}

\* The chains, address forms and provider names a call is made with.  An
\* address is known by its form: 0x and 40 hexadecimal digits, 32 to 44
\* base-58 characters, or neither; the provider "" is the omitted one.
ChainInputs == {"eth", "solana", "bsc"}
AddressInputs == {"hex40", "base58", "other"}
ProviderInputs == {"", "1inch", "kyber", "raydium", "uniswap", "constructor"}

\* AddressesService.isValidAddress.
isValidAddress(chain, address) ==
    IF chain = "eth" THEN address = "hex40"
    ELSE IF chain = "solana" THEN address = "base58"
    ELSE FALSE

\* A validation that looks at the source token only.
validateAddresses_FromOnly(chain, fromToken, toToken) ==
    IF ~isValidAddress(chain, fromToken) THEN "InvalidFromToken" ELSE "none"

\* SwapService.validateAddresses: the error it throws, "none" if none.
validateAddresses(chain, fromToken, toToken) ==
    IF ~isValidAddress(chain, fromToken) THEN "InvalidFromToken"
    ELSE IF ~isValidAddress(chain, toToken) THEN "InvalidToToken"
    ELSE "none"

\* SwapService.getProvider: the error it throws or the value it returns, a
\* provider (by its key) or an inherited property.
ToSet(seq) == {seq[i] : i \in DOMAIN seq}
getProvider(chain, providerName) ==
    IF chain \notin DOMAIN providers
        THEN [err |-> "NoProviders", key |-> "", isProvider |-> FALSE]
    ELSE IF providerName # ""
        THEN IF providerName \in ToSet(providers[chain])
                THEN [err |-> "none", key |-> providerName, isProvider |-> TRUE]
             ELSE IF providerName \in InheritedKeys
                THEN [err |-> "none", key |-> providerName, isProvider |-> FALSE]
             ELSE [err |-> "ProviderNotAvailable", key |-> "", isProvider |-> FALSE]
    ELSE [err |-> "none", key |-> providers[chain][1], isProvider |-> TRUE]

\* SwapService.getSigner: the error it throws, "none" if none.
getSigner(chain) == IF chain \in signers THEN "none" ELSE "NoSigner"

\* getName of the provider registered under a key.
getName(key) == key

\* The call of a provider's method.
Invocation(key, method) == [provider |-> key, method |-> method]

\* What a swap call answers: its error ("none" when it succeeds) and result.
SwapAnswer(op, req, err, ret) ==
    [service |-> "swap", op |-> op, req |-> req, err |-> err, ret |-> ret]
NoSwapResult ==
    [txHash |-> "", fromAmount |-> 0, toAmount |-> 0, executionPrice |-> 0,
     provider |-> ""]

\* What a provider's executeSwap does: it throws, or returns a result.
SwapOutcomes ==
    {[k |-> "throws", txHash |-> "", fromAmount |-> 0, toAmount |-> 0,
      executionPrice |-> 0],
     [k |-> "returns", txHash |-> "0x1", fromAmount |-> 1, toAmount |-> 5,
      executionPrice |-> 5],
     [k |-> "returns", txHash |-> "0x2", fromAmount |-> 2, toAmount |-> 14,
      executionPrice |-> 7]}

SwapRequests ==
    [chain : ChainInputs, fromToken : AddressInputs, toToken : AddressInputs,
     provider : ProviderInputs]

\* SwapService.executeSwap, the selected provider's executeSwap having the
\* given outcome.
ExecuteSwap(req, outcome) ==
    LET invalid == validateAddresses(req.chain, req.fromToken, req.toToken)
        provider == getProvider(req.chain, req.provider)
        signer == getSigner(req.chain)
        Throws(err) ==
            /\ invoked' = << >>
            /\ answer' = SwapAnswer("executeSwap", req, err, NoSwapResult)
    IN  /\ IF invalid # "none" THEN Throws(invalid)
           ELSE IF provider.err # "none" THEN Throws(provider.err)
           ELSE IF signer # "none" THEN Throws(signer)
           ELSE IF ~provider.isProvider THEN Throws("TypeError")
           ELSE /\ invoked' = <<Invocation(provider.key, "executeSwap")>>
                /\ answer' =
                      IF outcome.k = "throws"
                          THEN SwapAnswer("executeSwap", req, "ProviderError",
                                          NoSwapResult)
                      ELSE SwapAnswer("executeSwap", req, "none",
                                      [txHash |-> outcome.txHash,
                                       fromAmount |-> outcome.fromAmount,
                                       toAmount |-> outcome.toAmount,
                                       executionPrice |-> outcome.executionPrice,
                                       provider |-> getName(provider.key)])
        /\ UNCHANGED <<clockVars, inflight, initial, marketVars, memoryVars,
                       channelStore, rateLimitStore>>

\* What a provider's getQuote does: it throws, or returns a quote whose
\* rate is a quotient of two amounts of the provider's response, a number
\* or NaN.
QuoteOutcomes ==
    {[k |-> "throws", rate |-> NaN], [k |-> "returns", rate |-> Num(1)],
     [k |-> "returns", rate |-> Num(2)], [k |-> "returns", rate |-> NaN]}

\* parseFloat of a number.
parseFloat(n) == n

\* a > b of two numbers: false when either is NaN.
GreaterThan(a, b) == a.k = "num" /\ b.k = "num" /\ a.v > b.v

\* The loop of findBestProvider over the quotes after the first.
RECURSIVE BestOf(_, _)
BestOf(bestProvider, rest) ==
    IF rest = << >> THEN bestProvider
    ELSE BestOf(IF GreaterThan(parseFloat(Head(rest).rate),
                               parseFloat(bestProvider.rate))
                    THEN Head(rest) ELSE bestProvider,
                Tail(rest))

\* SwapService.findBestProvider: the error it throws or the name it returns.
findBestProvider(quotes) ==
    IF Len(quotes) = 0 THEN [err |-> "NoQuotes", name |-> ""]
    ELSE IF Len(quotes) = 1 THEN [err |-> "none", name |-> quotes[1].name]
    ELSE [err |-> "none", name |-> BestOf(quotes[1], Tail(quotes)).name]

\* The quotes getQuotes collects from the providers keys, the provider at
\* position i having outcome outcomes[i].
RECURSIVE CollectQuotes(_, _)
CollectQuotes(keys, outcomes) ==
    IF keys = << >> THEN << >>
    ELSE (IF Head(outcomes).k = "throws" THEN << >>
          ELSE <<[name |-> Head(keys), rate |-> Head(outcomes).rate]>>)
         \o CollectQuotes(Tail(keys), Tail(outcomes))

QuoteRequests ==
    [chain : ChainInputs, fromToken : AddressInputs, toToken : AddressInputs]
NoQuotesResult == [providers |-> << >>, bestProvider |-> ""]

\* SwapService.getQuotes, the chain's providers having the given outcomes.
GetQuotes(req, outcomes) ==
    LET invalid == validateAddresses(req.chain, req.fromToken, req.toToken)
        Throws(err) ==
            answer' = SwapAnswer("getQuotes", req, err, NoQuotesResult)
    IN  /\ IF invalid # "none" THEN invoked' = << >> /\ Throws(invalid)
           ELSE IF req.chain \notin DOMAIN providers
               THEN invoked' = << >> /\ Throws("NoProviders")
           ELSE LET keys == providers[req.chain]
                    quotes == CollectQuotes(keys, outcomes)
                    bestProvider == findBestProvider(quotes)
                IN  /\ invoked' = [i \in DOMAIN keys |-> Invocation(keys[i], "getQuote")]
                    /\ IF bestProvider.err # "none" THEN Throws(bestProvider.err)
                       ELSE answer' =
                              SwapAnswer("getQuotes", req, "none",
                                         [providers |-> quotes,
                                          bestProvider |-> bestProvider.name])
        /\ UNCHANGED <<clockVars, inflight, initial, marketVars, memoryVars,
                       channelStore, rateLimitStore>>

\* The outcomes the providers of a chain may have, one for each.
OutcomesFor(chain) ==
    IF chain \in DOMAIN providers
        THEN [DOMAIN providers[chain] -> QuoteOutcomes]
    ELSE {<< >>}

SwapNext ==
    \/ \E req \in SwapRequests, outcome \in SwapOutcomes : ExecuteSwap(req, outcome)
    \/ \E req \in QuoteRequests : \E outcomes \in OutcomesFor(req.chain) :
          GetQuotes(req, outcomes)

SwapSpec == Init /\ [][SwapNext]_vars

\* ------------------------------------------------- reading the clock
\* The wall-clock span over which a running clock is read.
MaxReadWall == 12

\* The scales of the clock that is read: 0.1, 1 and 1.5.
ReadScales == {Num(10), Num(100), Num(150)}

\* A clock just initialised at wall instant 0 with start time 0, kept in
\* initial as the caller saw it.
ReadInit ==
    /\ now = 0
    /\ \E timeScale \in ReadScales :
          LET tc == TimeControlInitialize(ConcSim, Ts(0), timeScale)
          IN  /\ timeControlStore = [id \in {ConcSim} |-> tc.rec]
              /\ initial = TimeInfo(tc.rec)
    /\ terminated = {}
    /\ last = NoCall
    /\ inflight = [c \in Callers |-> Idle]
    /\ MarketIdle
    /\ AgentIdle

\* The wall clock advances by a millisecond.
ReadTick ==
    /\ now < MaxReadWall
    /\ now' = now + 1
    /\ UNCHANGED <<timeControlStore, terminated, last, outside>>

ReadNext == ReadTick \/ GetCurrentTime(ConcSim)

ReadSpec == ReadInit /\ [][ReadNext]_vars

\* ------------------------------------------------ shared memory service
\* The agents that call the service, and the ids generateSpaceId and
\* generateEntryId hand out (each at most once).
Agents == {"a1", "a2"}
SpaceIds == {"space1"}
EntryIds == {"entry1"}

\* An optional list of agent ids: absent, or a list.
AbsentList == [k |-> "absent", v |-> << >>]
List(seq) == [k |-> "list", v |-> seq]
AdminAccessInputs == {AbsentList, List(<< >>), List(<<"a1">>), List(<<"a2">>)}
AccessInputs == {AbsentList, List(<<"a2">>)}

\* The ttl of an entry, in seconds: absent, 0 or 1.
TtlInputs == {Undefined, Num(0), Num(1)}

MsPerSecond == 1000

\* The wall-clock span, in seconds, over which the service is called.
MaxMemoryWall == 3

\* Array.prototype.includes.
Includes(seq, x) == \E i \in DOMAIN seq : seq[i] = x

\* list || [createdBy]: a list, even an empty one, is kept.
OrCreator(list, createdBy) == IF list.k = "absent" THEN <<createdBy>> ELSE list.v

\* SharedMemoryService.hasReadAccess / hasWriteAccess / hasAdminAccess.
hasAdminAccess(accessControlData, agentId) ==
    Includes(accessControlData.adminAccess, agentId)
hasWriteAccess(accessControlData, agentId) ==
    \/ Includes(accessControlData.writeAccess, agentId)
    \/ Includes(accessControlData.adminAccess, agentId)
hasReadAccess(accessControlData, agentId) ==
    \/ Includes(accessControlData.readAccess, agentId)
    \/ Includes(accessControlData.writeAccess, agentId)
    \/ Includes(accessControlData.adminAccess, agentId)

\* SharedMemoryService.isEntryExpired at wall instant w.
isEntryExpired(entryData, w) ==
    IF Falsy(entryData.ttl) THEN FALSE
    ELSE w > entryData.lastModifiedAt + entryData.ttl.v * MsPerSecond

\* What a call of the service answers: its error ("none" when it succeeds)
\* and the ids of the entries it returns.
MemoryAnswer(op, agentId, err, entries) ==
    [service |-> "memory", op |-> op, agentId |-> agentId, err |-> err,
     wall |-> now, entries |-> entries]

\* A call that throws before it changes anything.
MemoryThrows(op, agentId, err) ==
    /\ answer' = MemoryAnswer(op, agentId, err, << >>)
    /\ UNCHANGED <<clockVars, inflight, initial, marketVars, invoked, memoryVars,
                   channelStore, rateLimitStore>>

\* The map m with key k set to v.
Put(m, k, v) == [i \in DOMAIN m \cup {k} |-> IF i = k THEN v ELSE m[i]]

\* SharedMemoryService.createMemorySpace.  The name, description, type and
\* metadata of a space are payload no operation reads.
CreateMemorySpace(spaceId, createdBy, readAccess, writeAccess, adminAccess) ==
    /\ spaceId \notin DOMAIN memorySpaceStore
    /\ memorySpaceStore' =
          Put(memorySpaceStore, spaceId, [createdBy |-> createdBy, entries |-> << >>])
    /\ accessControlStore' =
          Put(accessControlStore, spaceId,
              [ownerAgentId |-> createdBy,
               readAccess |-> OrCreator(readAccess, createdBy),
               writeAccess |-> OrCreator(writeAccess, createdBy),
               adminAccess |-> OrCreator(adminAccess, createdBy)])
    /\ answer' = MemoryAnswer("createMemorySpace", createdBy, "none", << >>)
    /\ UNCHANGED <<clockVars, inflight, initial, marketVars, invoked,
                   knowledgeEntryStore, channelStore, rateLimitStore>>

\* SharedMemoryService.addKnowledgeEntry.  The key, value, metadata, tags
\* and confidence of an entry are payload no guard reads.
AddKnowledgeEntry(entryId, spaceId, agentId, ttl) ==
    IF spaceId \notin DOMAIN memorySpaceStore
        THEN MemoryThrows("addKnowledgeEntry", agentId, "SpaceNotFound")
    ELSE IF ~hasWriteAccess(accessControlStore[spaceId], agentId)
        THEN MemoryThrows("addKnowledgeEntry", agentId, "NoWriteAccess")
    ELSE /\ entryId \notin DOMAIN knowledgeEntryStore
         /\ knowledgeEntryStore' =
               Put(knowledgeEntryStore, entryId,
                   [spaceId |-> spaceId, createdBy |-> agentId,
                    lastModifiedAt |-> now, lastModifiedBy |-> agentId,
                    ttl |-> ttl])
         /\ memorySpaceStore' =
               [memorySpaceStore EXCEPT ![spaceId].entries = Append(@, entryId)]
         /\ answer' = MemoryAnswer("addKnowledgeEntry", agentId, "none", <<entryId>>)
         /\ UNCHANGED <<clockVars, inflight, initial, marketVars, invoked,
                        accessControlStore, channelStore, rateLimitStore>>

\* SharedMemoryService.updateKnowledgeEntry.
UpdateKnowledgeEntry(entryId, agentId, ttl) ==
    IF entryId \notin DOMAIN knowledgeEntryStore
        THEN MemoryThrows("updateKnowledgeEntry", agentId, "EntryNotFound")
    ELSE IF ~hasWriteAccess(accessControlStore[knowledgeEntryStore[entryId].spaceId],
                            agentId)
        THEN MemoryThrows("updateKnowledgeEntry", agentId, "NoWriteAccess")
    ELSE /\ knowledgeEntryStore' =
               [knowledgeEntryStore EXCEPT
                   ![entryId].ttl = IF ttl.k = "undefined" THEN @ ELSE ttl,
                   ![entryId].lastModifiedAt = now,
                   ![entryId].lastModifiedBy = agentId]
         /\ answer' = MemoryAnswer("updateKnowledgeEntry", agentId, "none", <<entryId>>)
         /\ UNCHANGED <<clockVars, inflight, initial, marketVars, invoked,
                        memorySpaceStore, accessControlStore, channelStore,
                        rateLimitStore>>

\* SharedMemoryService.getKnowledgeEntry.
GetKnowledgeEntry(entryId, agentId) ==
    IF entryId \notin DOMAIN knowledgeEntryStore
        THEN MemoryThrows("getKnowledgeEntry", agentId, "EntryNotFound")
    ELSE IF ~hasReadAccess(accessControlStore[knowledgeEntryStore[entryId].spaceId],
                           agentId)
        THEN MemoryThrows("getKnowledgeEntry", agentId, "NoReadAccess")
    ELSE IF isEntryExpired(knowledgeEntryStore[entryId], now)
        THEN MemoryThrows("getKnowledgeEntry", agentId, "Expired")
    ELSE /\ answer' = MemoryAnswer("getKnowledgeEntry", agentId, "none", <<entryId>>)
         /\ UNCHANGED <<clockVars, inflight, initial, marketVars, invoked,
                        memoryVars, channelStore, rateLimitStore>>

\* The entries of a list that are stored and have not expired, in order.
RECURSIVE LiveEntries(_)
LiveEntries(entries) ==
    IF entries = << >> THEN << >>
    ELSE (IF /\ Head(entries) \in DOMAIN knowledgeEntryStore
             /\ ~isEntryExpired(knowledgeEntryStore[Head(entries)], now)
             THEN <<Head(entries)>> ELSE << >>)
         \o LiveEntries(Tail(entries))

\* SharedMemoryService.queryKnowledgeEntries without key pattern, tags,
\* confidence, sorting or paging.
QueryKnowledgeEntries(spaceId, agentId) ==
    IF spaceId \notin DOMAIN memorySpaceStore
        THEN MemoryThrows("queryKnowledgeEntries", agentId, "SpaceNotFound")
    ELSE IF ~hasReadAccess(accessControlStore[spaceId], agentId)
        THEN MemoryThrows("queryKnowledgeEntries", agentId, "NoReadAccess")
    ELSE /\ answer' = MemoryAnswer("queryKnowledgeEntries", agentId, "none",
                                   LiveEntries(memorySpaceStore[spaceId].entries))
         /\ UNCHANGED <<clockVars, inflight, initial, marketVars, invoked,
                        memoryVars, channelStore, rateLimitStore>>

\* SharedMemoryService.updateAccessControl.
UpdateAccessControl(spaceId, agentId, readAccess, writeAccess, adminAccess) ==
    IF spaceId \notin DOMAIN accessControlStore
        THEN MemoryThrows("updateAccessControl", agentId, "AccessControlNotFound")
    ELSE IF ~hasAdminAccess(accessControlStore[spaceId], agentId)
        THEN MemoryThrows("updateAccessControl", agentId, "NoAdminAccess")
    ELSE LET owner == accessControlStore[spaceId].ownerAgentId
         IN  /\ accessControlStore' =
                   [accessControlStore EXCEPT
                       ![spaceId].readAccess =
                           IF readAccess.k = "absent" THEN @ ELSE readAccess.v,
                       ![spaceId].writeAccess =
                           IF writeAccess.k = "absent" THEN @ ELSE writeAccess.v,
                       ![spaceId].adminAccess =
                           IF adminAccess.k = "absent" THEN @
                           ELSE IF Includes(adminAccess.v, owner) THEN adminAccess.v
                           ELSE Append(adminAccess.v, owner)]
             /\ answer' = MemoryAnswer("updateAccessControl", agentId, "none", << >>)
             /\ UNCHANGED <<clockVars, inflight, initial, marketVars, invoked,
                            memorySpaceStore, knowledgeEntryStore, channelStore,
                            rateLimitStore>>

\* The wall clock advances by a second.
MemoryTick ==
    /\ now < MaxMemoryWall * MsPerSecond
    /\ now' = now + MsPerSecond
    /\ UNCHANGED <<timeControlStore, terminated, last, outside>>

MemoryNext ==
    \/ MemoryTick
    \/ \E spaceId \in SpaceIds, createdBy \in Agents :
          \E readAccess \in AccessInputs, writeAccess \in AccessInputs,
             adminAccess \in AdminAccessInputs :
             CreateMemorySpace(spaceId, createdBy, readAccess, writeAccess, adminAccess)
    \/ \E entryId \in EntryIds, spaceId \in SpaceIds, agentId \in Agents,
          ttl \in TtlInputs : AddKnowledgeEntry(entryId, spaceId, agentId, ttl)
    \/ \E entryId \in EntryIds, agentId \in Agents, ttl \in TtlInputs :
          UpdateKnowledgeEntry(entryId, agentId, ttl)
    \/ \E entryId \in EntryIds, agentId \in Agents : GetKnowledgeEntry(entryId, agentId)
    \/ \E spaceId \in SpaceIds, agentId \in Agents :
          QueryKnowledgeEntries(spaceId, agentId)
    \/ \E spaceId \in SpaceIds, agentId \in Agents :
          \E readAccess \in AccessInputs, writeAccess \in AccessInputs,
             adminAccess \in AdminAccessInputs :
             UpdateAccessControl(spaceId, agentId, readAccess, writeAccess, adminAccess)

MemorySpec == Init /\ [][MemoryNext]_vars

\* ------------------------------------------------ communication service
\* A channel id: a prefix and what follows it.  generateChannelId makes
\* "channel_<now>_<random>", broadcastMessage looks for "pool_<poolId>".
ChannelSuffixes == {"1", "2"}
PoolIds == {"p1", "p2"}
generateChannelId(suffix) == [prefix |-> "channel", suffix |-> suffix]
PoolChannelId(poolId) == [prefix |-> "pool", suffix |-> poolId]
ChannelIdInputs ==
    {generateChannelId(s) : s \in ChannelSuffixes} \cup {PoolChannelId(p) : p \in PoolIds}
ChannelTypeInputs == {"topic", "broadcast"}

\* The number of messages a channel is followed for.
MaxMessages == 2

\* What a call of the service answers: its error ("none" when it succeeds)
\* and the channel it names.
CommunicationAnswer(op, agentId, err, channelId) ==
    [service |-> "communication", op |-> op, agentId |-> agentId, err |-> err,
     channelId |-> channelId]

CommunicationThrows(op, agentId, err, channelId) ==
    /\ answer' = CommunicationAnswer(op, agentId, err, channelId)
    /\ UNCHANGED <<clockVars, inflight, initial, marketVars, invoked, memoryVars,
                   channelStore, rateLimitStore>>

\* The channel createChannel stores, with its subscription set; the name,
\* description and metadata of a channel are payload no operation reads.
NewChannel(createdBy, type) ==
    [createdBy |-> createdBy, type |-> type, messages |-> << >>, subscribers |-> {}]

\* CommunicationService.createChannel; suffix is what generateChannelId
\* draws from the clock and the random source.
CreateChannel(suffix, createdBy, type) ==
    /\ channelStore' =
          Put(channelStore, generateChannelId(suffix), NewChannel(createdBy, type))
    /\ answer' = CommunicationAnswer("createChannel", createdBy, "none",
                                     generateChannelId(suffix))
    /\ UNCHANGED <<clockVars, inflight, initial, marketVars, invoked, memoryVars,
                   rateLimitStore>>

\* CommunicationService.subscribeToChannel.
SubscribeToChannel(channelId, agentId) ==
    IF channelId \notin DOMAIN channelStore
        THEN CommunicationThrows("subscribeToChannel", agentId, "ChannelNotFound",
                                 channelId)
    ELSE /\ channelStore' =
               [channelStore EXCEPT ![channelId].subscribers = @ \cup {agentId}]
         /\ answer' = CommunicationAnswer("subscribeToChannel", agentId, "none",
                                          channelId)
         /\ UNCHANGED <<clockVars, inflight, initial, marketVars, invoked,
                        memoryVars, rateLimitStore>>

\* CommunicationService.sendChannelMessage.
SendChannelMessage(channelId, senderId) ==
    IF channelId \notin DOMAIN channelStore
        THEN CommunicationThrows("sendChannelMessage", senderId, "ChannelNotFound",
                                 channelId)
    ELSE IF senderId \notin channelStore[channelId].subscribers
        THEN CommunicationThrows("sendChannelMessage", senderId, "NotSubscribed",
                                 channelId)
    ELSE /\ Len(channelStore[channelId].messages) < MaxMessages
         /\ channelStore' =
               [channelStore EXCEPT
                   ![channelId].messages =
                       Append(@, [senderId |-> senderId, type |-> "text"])]
         /\ answer' = CommunicationAnswer("sendChannelMessage", senderId, "none",
                                          channelId)
         /\ UNCHANGED <<clockVars, inflight, initial, marketVars, invoked,
                        memoryVars, rateLimitStore>>

\* CommunicationService.broadcastMessage; suffix is what generateChannelId
\* draws when the call creates a channel.
BroadcastMessage(poolId, senderId, suffix) ==
    LET channelId == PoolChannelId(poolId)
        created ==
            IF channelId \notin DOMAIN channelStore
                THEN Put(channelStore, generateChannelId(suffix),
                         NewChannel(senderId, "broadcast"))
            ELSE channelStore
    IN  /\ IF channelId \notin DOMAIN created
              THEN /\ channelStore' = created
                   /\ answer' = CommunicationAnswer("broadcastMessage", senderId,
                                                    "ChannelNotFound", channelId)
           ELSE /\ Len(created[channelId].messages) < MaxMessages
                /\ channelStore' =
                      [created EXCEPT
                          ![channelId].messages =
                              Append(@, [senderId |-> senderId, type |-> "broadcast"])]
                /\ answer' = CommunicationAnswer("broadcastMessage", senderId,
                                                 "none", channelId)
        /\ UNCHANGED <<clockVars, inflight, initial, marketVars, invoked, memoryVars,
                       rateLimitStore>>

CommunicationNext ==
    \/ \E suffix \in ChannelSuffixes, createdBy \in Agents, type \in ChannelTypeInputs :
          CreateChannel(suffix, createdBy, type)
    \/ \E channelId \in ChannelIdInputs, agentId \in Agents :
          SubscribeToChannel(channelId, agentId)
    \/ \E channelId \in ChannelIdInputs, senderId \in Agents :
          SendChannelMessage(channelId, senderId)
    \/ \E poolId \in PoolIds, senderId \in Agents, suffix \in ChannelSuffixes :
          BroadcastMessage(poolId, senderId, suffix)

CommunicationSpec == Init /\ [][CommunicationNext]_vars

\* ------------------------------------------------ rate limiting service
\* The endpoints a request names, as character codes.
StrAction == <<97, 99, 116, 105, 111, 110>>    \* "action"
StrObservation == <<111, 98, 115, 101, 114, 118, 97, 116, 105, 111, 110>>    \* "observation"
StrReward == <<114, 101, 119, 97, 114, 100>>    \* "reward"
EndpointInputs == {StrAction, StrObservation}
RateAgents == {"a1"}

\* RateLimitingService.getWindowDuration, in milliseconds.
getWindowDuration(learningPhase) ==
    IF learningPhase = "exploration" THEN 60 * 1000
    ELSE IF learningPhase = "exploitation" THEN 5 * 60 * 1000
    ELSE 15 * 60 * 1000

\* The phase multipliers 1.5, 1.0 and 0.7, in tenths.
phaseMultipliers(learningPhase) ==
    IF learningPhase = "exploration" THEN 15
    ELSE IF learningPhase = "exploitation" THEN 10
    ELSE 7

\* RateLimitingService.getMaxRequests.
getMaxRequests(endpoint, learningPhase) ==
    LET baseLimit ==
            IF includes(endpoint, StrObservation) THEN 200
            ELSE IF includes(endpoint, StrAction) THEN 50
            ELSE IF includes(endpoint, StrReward) THEN 100
            ELSE 100
    IN  (baseLimit * phaseMultipliers(learningPhase)) \div 10

\* The time between two looks at the learning phase, 24 hours, and the
\* totals of requests beyond which the phase moves on.
PhaseUpdateInterval == 24 * 60 * 60 * 1000
ExploitationAfter == 1000
FineTuningAfter == 5000

\* RateLimitingService.updateLearningPhaseIfNeeded at wall instant w.
updateLearningPhaseIfNeeded(rateLimitData, w) ==
    IF w - rateLimitData.lastPhaseUpdateTime < PhaseUpdateInterval THEN rateLimitData
    ELSE IF /\ rateLimitData.learningPhase = "exploration"
            /\ rateLimitData.totalRequests > ExploitationAfter
        THEN [rateLimitData EXCEPT !.learningPhase = "exploitation",
                                   !.lastPhaseUpdateTime = w]
    ELSE IF /\ rateLimitData.learningPhase = "exploitation"
            /\ rateLimitData.totalRequests > FineTuningAfter
        THEN [rateLimitData EXCEPT !.learningPhase = "fine-tuning",
                                   !.lastPhaseUpdateTime = w]
    ELSE rateLimitData

\* limitAdjustment is kept in tenths: 1.0 at first, within 0.5 .. 2.0.
\* RateLimitingService.getOrCreateRateLimitData at wall instant w.
getOrCreateRateLimitData(agentId, w) ==
    IF agentId \in DOMAIN rateLimitStore THEN rateLimitStore[agentId]
    ELSE [learningPhase |-> "exploration", limitAdjustment |-> 10,
          totalRequests |-> 0, successfulRequests |-> 0, endpoints |-> << >>,
          lastPhaseUpdateTime |-> w]

\* What checkRateLimit answers.
RateAnswer(agentId, endpoint, isAllowed, remainingRequests, resetTime, rateLimitData) ==
    [service |-> "rateLimit", op |-> "checkRateLimit", agentId |-> agentId,
     endpoint |-> endpoint, isAllowed |-> isAllowed,
     remainingRequests |-> remainingRequests, resetTime |-> resetTime,
     currentPhase |-> rateLimitData.learningPhase,
     limitAdjustment |-> rateLimitData.limitAdjustment]

\* RateLimitingService.checkRateLimit.
CheckRateLimit(agentId, endpoint) ==
    LET rateLimitData == getOrCreateRateLimitData(agentId, now)
        created ==
            IF endpoint \in DOMAIN rateLimitData.endpoints
                THEN rateLimitData.endpoints[endpoint]
            ELSE [requestCount |-> 0, lastRequestTime |-> now, windowStartTime |-> now]
        windowDuration == getWindowDuration(rateLimitData.learningPhase)
        endpointData ==
            IF now - created.windowStartTime > windowDuration
                THEN [created EXCEPT !.requestCount = 0, !.windowStartTime = now]
            ELSE created
        maxRequests == getMaxRequests(endpoint, rateLimitData.learningPhase)
        isAllowed == endpointData.requestCount < maxRequests
        counted ==
            IF isAllowed
                THEN [endpointData EXCEPT !.requestCount = @ + 1, !.lastRequestTime = now]
            ELSE endpointData
        withEndpoint ==
            [rateLimitData EXCEPT !.endpoints = Put(@, endpoint, counted)]
        updated ==
            IF isAllowed
                THEN updateLearningPhaseIfNeeded(
                         [withEndpoint EXCEPT !.totalRequests = @ + 1], now)
            ELSE withEndpoint
    IN  /\ rateLimitStore' = Put(rateLimitStore, agentId, updated)
        /\ answer' = RateAnswer(agentId, endpoint, isAllowed,
                                Max(0, maxRequests - counted.requestCount),
                                counted.windowStartTime + windowDuration, updated)
        /\ UNCHANGED <<clockVars, inflight, initial, marketVars, invoked, memoryVars,
                       channelStore>>

\* The number of successful requests recorded for an agent that is followed.
MaxSuccessful == 2

\* RateLimitingService.recordSuccessfulRequest.  A total of 0 makes the
\* success rate Infinity.
RecordSuccessfulRequest(agentId) ==
    LET rateLimitData == getOrCreateRateLimitData(agentId, now)
        successful == rateLimitData.successfulRequests + 1
        total == rateLimitData.totalRequests
        adjusted ==
            IF total = 0 \/ successful * 100 > 95 * total
                THEN Min(20, rateLimitData.limitAdjustment + 1)
            ELSE IF successful * 10 < 7 * total
                THEN Max(5, rateLimitData.limitAdjustment - 1)
            ELSE rateLimitData.limitAdjustment
    IN  /\ rateLimitData.successfulRequests < MaxSuccessful
        /\ rateLimitStore' =
              Put(rateLimitStore, agentId,
                  [rateLimitData EXCEPT !.successfulRequests = successful,
                                        !.limitAdjustment = adjusted])
        /\ answer' = [service |-> "rateLimit", op |-> "recordSuccessfulRequest",
                      agentId |-> agentId]
        /\ UNCHANGED <<clockVars, inflight, initial, marketVars, invoked, memoryVars,
                       channelStore>>

\* The wall instant the service is followed from, a second before the
\* agent's learning phase is a day old, and the span, in seconds, it is
\* followed for.
RateStart == PhaseUpdateInterval - MsPerSecond
MaxRateWall == 2

\* An agent close to the end of a learning phase: its phase began at wall
\* instant 0, its total of requests is short of the phase's threshold, and
\* its windows, begun since windowStartTime, are nearly used up.
NearPhaseEnd(learningPhase, threshold, windowStartTime) ==
    [learningPhase |-> learningPhase, limitAdjustment |-> 10,
     totalRequests |-> threshold - 1, successfulRequests |-> 0,
     endpoints |->
        [endpoint \in {StrAction, StrObservation} |->
            [requestCount |-> getMaxRequests(endpoint, learningPhase) - 2,
             lastRequestTime |-> RateStart, windowStartTime |-> windowStartTime]],
     lastPhaseUpdateTime |-> 0]

RateInit ==
    /\ now = RateStart
    /\ timeControlStore = << >>
    /\ terminated = {}
    /\ last = NoCall
    /\ inflight = [c \in Callers |-> Idle]
    /\ initial = NoRet
    /\ MarketIdle
    /\ invoked = << >>
    /\ answer = NoAnswer
    /\ memorySpaceStore = << >>
    /\ accessControlStore = << >>
    /\ knowledgeEntryStore = << >>
    /\ channelStore = << >>
    /\ \E agentId \in RateAgents :
             \/ rateLimitStore =
                   [a \in {agentId} |->
                       NearPhaseEnd("exploration", ExploitationAfter,
                                    RateStart - 10 * MsPerSecond)]
             \/ rateLimitStore =
                   [a \in {agentId} |->
                       NearPhaseEnd("exploitation", FineTuningAfter,
                                    RateStart - 10 * MsPerSecond)]

\* The wall clock advances by a second.
RateTick ==
    /\ now < PhaseUpdateInterval + MaxRateWall * MsPerSecond
    /\ now' = now + MsPerSecond
    /\ UNCHANGED <<timeControlStore, terminated, last, outside>>

RateNext ==
    \/ RateTick
    \/ \E agentId \in RateAgents, endpoint \in EndpointInputs :
          CheckRateLimit(agentId, endpoint)
    \/ \E agentId \in RateAgents : RecordSuccessfulRequest(agentId)

RateSpec == RateInit /\ [][RateNext]_vars

\* ------------------------------------------------------------- claims
\* The clock record of id.
Rec(id) == timeControlStore[id]
Running(id) == Known(id) /\ Rec(id).status = "running"
Paused(id) == Known(id) /\ Rec(id).status = "paused"
\* The latest call was op on id and succeeded.
LastOk(op, id) == last.op = op /\ last.id = id /\ last.err = "none"
\* t + d*s cut toward zero to whole milliseconds, s in units of 1/ScaleDen.
Advanced(t, d, s) == TruncDiv(t * ScaleDen + d * s, ScaleDen)
\* r is exactly t + d*s.
ExactlyAdvanced(r, t, d, s) == r * ScaleDen = t * ScaleDen + d * s

C3_ResumeOfRunningIsNoOp ==
    [][\A id \in SimIds :
        (Running(id) /\ ResumeSimulation(id))
            => \A d \in 0..MaxWall :
                  SyncIfRunning(Rec(id)', now + d).currentTime
                      = SyncIfRunning(Rec(id), now + d).currentTime]_vars

C5_MonotoneButResetAndSetTime ==
    [][\A id \in SimIds :
        (Known(id) /\ Rec(id)'.currentTime < Rec(id).currentTime)
            => \/ ResetSimulation(id)
               \/ \E t \in TimeInputs : SetCurrentTime(id, t)]_vars

\* C5's case: a Running clock whose time has advanced past its start through
\* a read that followed a scale change.
C5_Witness ==
    \E id \in SimIds :
        /\ Running(id) /\ LastOk("getCurrentTime", id)
        /\ last.after = "setTimeScale"
        /\ Rec(id).currentTime > Rec(id).startTime

\* C6: reset() in any clock state leaves currentTime = startTime and the
\* status Paused, and changes neither startTime nor timeScale.
C6_ResetYieldsStartPaused ==
    [][\A id \in SimIds :
        (Known(id) /\ ResetSimulation(id))
            => /\ last'.err = "none"
               /\ Rec(id)'.currentTime = Rec(id).startTime
               /\ Rec(id)'.status = "paused"
               /\ Rec(id)'.startTime = Rec(id).startTime
               /\ Rec(id)'.timeScale = Rec(id).timeScale]_vars

\* C6's case: a reset that followed a setCurrentTime, of a clock whose scale
\* had been changed.
C6_Witness ==
    \E id \in SimIds :
        /\ Paused(id) /\ LastOk("reset", id)
        /\ last.after = "setCurrentTime"
        /\ Rec(id).currentTime = Rec(id).startTime
        /\ Rec(id).timeScale = minTimeScale

\* A malformed scale: non-finite, or not positive.
Malformed(n) == n.k \in {"nan", "inf", "ninf"} \/ (n.k = "num" /\ n.v <= 0)

\* C7: initialize and setTimeScale fail with the invalid-scale error for
\* every malformed scale, and a malformed scale never becomes the clock's.
C7_MalformedScaleRejected ==
    [][\A id \in SimIds :
        /\ \A s \in ScaleInputs :
            (Known(id) /\ Malformed(s) /\ SetTimeScale(id, s))
              => /\ last'.err = "InvalidTimeScale"
                 /\ Rec(id)'.timeScale = Rec(id).timeScale
        /\ \A s \in ScaleInputs, t \in StartInputs, src \in SourceInputs :
            (~Known(id) /\ Malformed(s) /\ InitializeSimulationWith(id, t, s, src))
              => /\ last'.err = "InvalidTimeScale"
                 /\ ~Known(id)']_vars

\* C8: the time scale of every clock record is within [0.1, 1000].
C8_TimeScaleInRange ==
    \A id \in DOMAIN timeControlStore :
        /\ minTimeScale <= Rec(id).timeScale
        /\ Rec(id).timeScale <= maxTimeScale

\* C8's case: a clock whose scale was clamped to the minimum and that has
\* since refused a malformed scale.
C8_Witness ==
    \E id \in SimIds :
        /\ Known(id)
        /\ last.op = "setTimeScale" /\ last.err = "InvalidTimeScale"
        /\ last.after = "setTimeScale"
        /\ Rec(id).timeScale = minTimeScale

OperationOn(id) ==
    \/ GetSimulationState(id)
    \/ PauseSimulation(id)
    \/ ResumeSimulation(id)
    \/ ResetSimulation(id)
    \/ GetCurrentTime(id)
    \/ \E s \in ScaleInputs : SetTimeScale(id, s)
    \/ \E t \in TimeInputs : SetCurrentTime(id, t)

\* C10: once terminate(id) has succeeded for an initialized simulation,
\* every operation on id fails with NotFound and changes no state.
C10_TerminatedIsTerminal ==
    [][\A id \in SimIds :
        (Known(id) /\ id \in terminated /\ OperationOn(id))
            => /\ last'.err = "NotFound"
               /\ timeControlStore' = timeControlStore]_vars

\* C11: every orchestrator and clock operation (getState, pause, resume,
\* reset, terminate, setScale, setTime, getCurrentTime) on an id that was
\* never initialized fails with NotFound and returns no state.
C11_UnknownIdFailsNotFound ==
    [][\A id \in SimIds :
        (~Known(id) /\ (OperationOn(id) \/ TerminateSimulation(id)))
            => /\ last'.err = "NotFound"
               /\ last'.ret = NoRet]_vars

\* The clock values of id at wall instant w: what getCurrentTime would
\* answer there.
ClockValues(id, w) == TimeInfo(SyncIfRunning(Rec(id), w))

\* C12: the currentTime, timeScale and status answered by the orchestrator's
\* getState, pause, resume and reset for an initialized id are the clock's
\* values at the moment of the call.
C12_OrchestratorReportsClock ==
    [][\A id \in SimIds :
        (/\ Known(id)
         /\ \/ GetSimulationState(id)
            \/ PauseSimulation(id)
            \/ ResumeSimulation(id)
            \/ ResetSimulation(id))
            => last'.ret = ClockValues(id, now)']_vars

\* C13: operations on one simulation id are serialized: whenever the
\* overlapping requests have all answered, the clock record and every
\* answer are those of running the same requests one after another, in
\* some order, from the record they started from.
C13_Serializable ==
    (\A c \in Callers : inflight[c].pc = "done")
        => \E o \in Orders :
              LET r == Replay(initial, o)
              IN  r.same /\ r.rec = timeControlStore[ConcSim]

\* C13's case: a pause, resume or reset whose clock call and whose
\* getSimulationState are separated by a clock-changing request of the
\* other caller, with a wall-clock tick on either side.
C13_Witness ==
    \E a, b \in Callers :
        /\ a # b
        /\ inflight[a].pc = "done" /\ inflight[b].pc = "done"
        /\ inflight[a].req.op \in ProxyOps
        /\ inflight[b].req.op \in {"setCurrentTime", "setTimeScale", "resume", "pause"}
        /\ inflight[b].err = "none"
        /\ inflight[a].w1 < inflight[b].w1
        /\ inflight[b].w1 < inflight[a].w2

\* C14: every scenario snapshot has progress in [0, 1] and never
\* not-a-number; when both instants parse and the duration is positive it
\* is 0 for currentTime <= startTime, 1 for currentTime >= startTime +
\* duration, and (currentTime - startTime) / duration in between.
ScenarioAnswered == query.service = "scenario" /\ snapshot.err = "none"
C14_ProgressClamped ==
    ScenarioAnswered =>
        LET p == snapshot.progress
            duration == getScenarioConfig(query.scenarioType, query.parameters).duration
        IN  /\ p.k = "num"
            /\ 0 <= p.n
            /\ p.n \div 1000 <= p.d
            /\ (query.startTime.k = "ms" /\ query.currentTime.k = "ms" /\ duration.v > 0) =>
                  LET delta == query.currentTime.v - query.startTime.v
                  IN  IF delta <= 0 THEN p = ProgressZero
                      ELSE IF delta \div 1000 >= duration.v THEN p = ProgressOne
                      ELSE p = Progress(delta, duration.v)

\* C15: every token price of a snapshot is a strictly positive number: for
\* each of the seven scenario types at every progress in [0, 1] with the
\* parameters in their documented ranges (optional ones omitted or present),
\* and for every historical (token, timestamp).
HistoricalAnswered == query.service = "historical" /\ snapshot.err = "none"
C15_PricePositive ==
    /\ (/\ ScenarioAnswered
        /\ query.scenarioType \in validScenarios
        /\ snapshot.progress.k = "num")
          => \A j \in 1..Len(snapshot.tokens) :
                LET price == snapshot.tokens[j].price
                IN  price.k = "num" /\ price.base > 0 /\ price.modifier > 0
    /\ HistoricalAnswered
          => \A j \in 1..Len(snapshot.tokens) : snapshot.tokens[j].price > 0

\* C16: for bull_market, every given intensity in [0, 1] (0 included) and
\* every progress in [0, 1], the price modifier is 1 + intensity * progress.
C16_BullModifierLinear ==
    (/\ ScenarioAnswered
     /\ query.scenarioType = "bull_market"
     /\ query.parameters.intensity.k = "num"
     /\ snapshot.progress.k = "num")
        => snapshot.modifiers.price =
              Num(ModDen + 10 * query.parameters.intensity.v
                              * Eighths(snapshot.progress))

\* C17: a query with an unrecognized scenarioType raises no error and
\* returns the aggregate metrics and the price, volume and depth modifiers
\* that the same query with scenarioType bull_market returns.
AsBullMarket(q) ==
    generateMarketData("bull_market", q.parameters,
        ScenarioProgress(q.startTime, q.currentTime,
            getScenarioConfig("bull_market", q.parameters).duration),
        q.tokens, q.random, 0)
C17_UnknownTypeIsBullMarket ==
    (query.service = "scenario" /\ query.scenarioType \notin validScenarios)
        => /\ snapshot.err = "none"
           /\ snapshot.marketMetrics = AsBullMarket(query).marketMetrics
           /\ snapshot.modifiers = AsBullMarket(query).modifiers

\* C18: two historical queries with identical tokens and timestamp return
\* identical per-token price, volume and market cap.
PerToken(s) ==
    [j \in 1..Len(s.tokens) |->
        [price |-> s.tokens[j].price, volume |-> s.tokens[j].volume,
         marketCap |-> s.tokens[j].marketCap]]
C18_HistoricalIsPure ==
    [][(RepeatHistorical /\ snapshot.err = "none")
          => snapshot'.err = "none" /\ PerToken(snapshot') = PerToken(snapshot)]_vars

\* C19: with the order-book jitter fixed, two scenario queries with
\* identical scenarioType, parameters, startTime, currentTime and tokens
\* return identical snapshots.
JitterDraws(stream, tokens) ==
    [j \in 1..Len(tokens) |->
        [l \in 1..10 |-> Draw(stream, 11 * (j - 1) + 1 + l)]]
C19_OnlyJitterIsRandom ==
    [][(/\ RepeatScenario
        /\ JitterDraws(query'.random, query.tokens)
              = JitterDraws(query.random, query.tokens))
          => snapshot' = snapshot]_vars

\* C20: the base price of a token depends only on the token identifier
\* (and the timestamp for historical replay) and lies in the band of its
\* regime, for every identifier, a hash of -2^31 before the absolute value
\* included.  The regime of an identifier is the first that applies of:
\* contains 'btc', contains 'eth', contains 'usdc' or 'usdt', other.
InBand(price, lo, hi) == lo <= price /\ price < hi
Contains(token, sub) == includes(toLowerCase(token), sub)
BasePrices(q, s) ==
    IF q.service = "none" \/ s.err # "none" THEN << >>
    ELSE [j \in 1..Len(s.tokens) |->
            IF q.service = "historical" THEN s.tokens[j].price
            ELSE IF s.tokens[j].price.k = "num" THEN s.tokens[j].price.base
            ELSE 0]
PriceKnown(q, s, j) == q.service = "historical" \/ s.tokens[j].price.k = "num"
InRegimeBand(token, price) ==
    IF Contains(token, TokBtc) THEN InBand(price, 30000 * PriceDen, 50000 * PriceDen)
    ELSE IF Contains(token, TokEth) THEN InBand(price, 1500 * PriceDen, 3500 * PriceDen)
    ELSE IF Contains(token, TokUsdc) \/ Contains(token, TokUsdt) THEN InBand(price, 98, 103)
    ELSE InBand(price, 10, 10010)
SamePricesWhenRepeated ==
    (RepeatScenario \/ RepeatHistorical)
        => BasePrices(query', snapshot') = BasePrices(query, snapshot)
C20_BasePriceInFirstRegimeBand ==
    [][/\ SamePricesWhenRepeated
       /\ \A j \in DOMAIN BasePrices(query', snapshot') :
            PriceKnown(query', snapshot', j)
                => InRegimeBand(query'.tokens[j], BasePrices(query', snapshot')[j])]_vars

\* C20 as stated: the band of every substring the identifier contains.
InEveryBand(token, price) ==
    /\ Contains(token, TokBtc) => InBand(price, 30000 * PriceDen, 50000 * PriceDen)
    /\ Contains(token, TokEth) => InBand(price, 1500 * PriceDen, 3500 * PriceDen)
    /\ (Contains(token, TokUsdc) \/ Contains(token, TokUsdt)) => InBand(price, 98, 103)
    /\ ~(\/ Contains(token, TokBtc) \/ Contains(token, TokEth)
         \/ Contains(token, TokUsdc) \/ Contains(token, TokUsdt))
            => InBand(price, 10, 10010)
C20_BasePriceInEveryBand ==
    [][/\ SamePricesWhenRepeated
       /\ \A j \in DOMAIN BasePrices(query', snapshot') :
            PriceKnown(query', snapshot', j)
                => InEveryBand(query'.tokens[j], BasePrices(query', snapshot')[j])]_vars

\* A historical snapshot, asked a second time, for an identifier of two
\* regimes and one whose hash with the timestamp is -2^31.
C20_Witness ==
    /\ HistoricalAnswered
    /\ query.tokens = <<TokEthBtc, TokBtcHistMin>>
    /\ query.timestamp = Ts(0)
    /\ query.random = "mixed"
    /\ HashLoop(Int32(0, 0), TokBtcHistMin \o toISOString(0)) = Int32(Half \div 2, 0)
    /\ snapshot.tokens[1].price >= 30000 * PriceDen
    /\ snapshot.tokens[2].price = (30000 + 3648) * PriceDen

\* C21: initializeSimulation with an empty token list fails, for type
\* historical and for type scenario alike, and returns no simulation.
InitializeInputs ==
    [startTime : StartInputs, timeScale : ScaleInputs \cup {Undefined},
     src : SourceInputs]
InitializesWith(id, in) ==
    InitializeSimulationWith(id, in.startTime, in.timeScale, in.src)
C21_EmptyTokenListRejected ==
    [][\A id \in SimIds, in \in InitializeInputs :
        (/\ ~Known(id)
         /\ in.src.type \in {"historical", "scenario"}
         /\ in.src.tokens = 0
         /\ InitializesWith(id, in))
            => last'.err # "none" /\ last'.ret = NoRet]_vars

\* C26: an initializeSimulation that fails leaves the time-control store as
\* it was: no record exists for the id it generated.
C26_FailedInitializeCreatesNothing ==
    [][\A id \in SimIds, in \in InitializeInputs :
        (~Known(id) /\ InitializesWith(id, in) /\ last'.err # "none")
            => timeControlStore' = timeControlStore]_vars

\* C22: with every jitter draw 0 and a non-negative depth modifier, level i
\* (from 0) of the 5 levels of each side has amount
\* depthModifier * (1000 - 150 * i), which does not increase with i, and
\* price base + (i + 1) * 0.001 * base on the ask side and
\* base - (i + 1) * 0.001 * base on the bid side, base being the token's
\* price.
NoJitter(stream, tokens) ==
    \A j \in 1..Len(tokens), l \in 1..10 : JitterDraws(stream, tokens)[j][l] = 0
LevelOf(side, base, depth, amountBefore, l) ==
    /\ side[l].amount = Num(depth * (1000 - 150 * (l - 1)))
    /\ side[l].amount.v <= amountBefore
    /\ side[l].price.k = base.k
    /\ base.k = "num" =>
          /\ side[l].price.base = base.base
          /\ side[l].price.modifier = base.modifier
C22_OrderBookWithoutJitter ==
    (/\ ScenarioAnswered
     /\ NoJitter(query.random, query.tokens)
     /\ snapshot.modifiers.depth.k = "num"
     /\ snapshot.modifiers.depth.v >= 0)
        => \A j \in 1..Len(snapshot.tokens) :
              LET t == snapshot.tokens[j]
                  depth == snapshot.modifiers.depth.v
                  Before(side, l) == IF l = 1 THEN depth * 1000 ELSE side[l - 1].amount.v
              IN  /\ Len(t.marketDepth.asks) = 5
                  /\ Len(t.marketDepth.bids) = 5
                  /\ \A l \in 1..5 :
                        /\ LevelOf(t.marketDepth.asks, t.price, depth,
                                   Before(t.marketDepth.asks, l), l)
                        /\ LevelOf(t.marketDepth.bids, t.price, depth,
                                   Before(t.marketDepth.bids, l), l)
                        /\ t.price.k = "num" =>
                              /\ 1000 * t.marketDepth.asks[l].price.permille
                                    = 1000 * t.price.permille + l * t.price.permille
                              /\ 1000 * t.marketDepth.bids[l].price.permille
                                    = 1000 * t.price.permille - l * t.price.permille

\* A liquidity crisis half way, without jitter: the books are thinner than
\* a neutral market's and hold a numeric price.
C22_Witness ==
    /\ ScenarioAnswered
    /\ query.scenarioType = "liquidity_crisis"
    /\ query.random = "low"
    /\ query.tokens = <<TokBtc, TokEth>>
    /\ Eighths(snapshot.progress) = 4
    /\ snapshot.modifiers.depth.k = "num"
    /\ snapshot.modifiers.depth.v > 0
    /\ snapshot.modifiers.depth.v < ModDen
    /\ snapshot.tokens[2].price.k = "num"
    /\ snapshot.tokens[2].marketDepth.bids[5].amount.v
          = 400 * snapshot.modifiers.depth.v

\* The provider a swap request selects: the named one, the chain's first
\* provider when none is named.
Registered(chain) ==
    IF chain \in DOMAIN providers THEN ToSet(providers[chain]) ELSE {}
SelectedProvider(req) ==
    IF req.provider = "" THEN providers[req.chain][1] ELSE req.provider
SwapRequestValid(req) ==
    /\ isValidAddress(req.chain, req.fromToken)
    /\ isValidAddress(req.chain, req.toToken)
    /\ req.chain \in DOMAIN providers
    /\ req.chain \in signers
    /\ req.provider = "" \/ req.provider \in Registered(req.chain)

NumericRates(quotes) ==
    {quotes[i].rate.v : i \in {j \in DOMAIN quotes : quotes[j].rate.k = "num"}}
HasMaximumRate(quotes, i) ==
    /\ quotes[i].rate.k = "num"
    /\ \A r \in NumericRates(quotes) : r <= quotes[i].rate.v

\* C24: getQuotes with valid addresses asks each provider of the chain once,
\* in order; it lists the quotes that succeeded and no other; it fails when
\* none succeeded; otherwise bestProvider names the earliest listed quote
\* whose rate is the maximum of the listed rates.
C24_BestProviderHasMaximumRate ==
    [][\A req \in QuoteRequests : \A outcomes \in OutcomesFor(req.chain) :
        (/\ GetQuotes(req, outcomes)
         /\ isValidAddress(req.chain, req.fromToken)
         /\ isValidAddress(req.chain, req.toToken))
            => LET keys == providers[req.chain]
                   ok == {i \in DOMAIN keys : outcomes[i].k = "returns"}
                   quotes == answer'.ret.providers
               IN  /\ invoked' = [i \in DOMAIN keys |-> Invocation(keys[i], "getQuote")]
                   /\ (ok = {}) <=> (answer'.err # "none")
                   /\ ok # {} =>
                        /\ Len(quotes) = Cardinality(ok)
                        /\ \A i \in ok : \E j \in DOMAIN quotes :
                              quotes[j] = [name |-> keys[i], rate |-> outcomes[i].rate]
                        /\ NumericRates(quotes) # {} =>
                              \E j \in DOMAIN quotes :
                                 /\ quotes[j].name = answer'.ret.bestProvider
                                 /\ HasMaximumRate(quotes, j)
                                 /\ \A h \in 1..(j - 1) : ~HasMaximumRate(quotes, h)]_vars

\* C25: the simulated time getCurrentTime returns for a running clock after
\* a wall-clock advance is the one a single read at that instant returns,
\* start + scale * advance cut to whole milliseconds, however many reads
\* were made in between.
C25_ReadingIsNeutral ==
    (last.op = "getCurrentTime" /\ last.err = "none" /\ last.wall = now)
        => last.ret.currentTime =
              initial.currentTime + TruncDiv(initial.timeScale * now, ScaleDen)

\* C27: in every state the owner of a memory space is in the space's
\* adminAccess list, so an updateAccessControl of the owner is not refused
\* for want of admin access.
C27_OwnerIsAdmin ==
    \A spaceId \in DOMAIN accessControlStore :
        hasAdminAccess(accessControlStore[spaceId],
                       accessControlStore[spaceId].ownerAgentId)

\* An entry is returned by the call just answered.
Returned(entryId) ==
    /\ answer.service = "memory"
    /\ answer.op \in {"getKnowledgeEntry", "queryKnowledgeEntries"}
    /\ answer.err = "none"
    /\ answer.wall = now
    /\ Includes(answer.entries, entryId)
Expired(entryId) ==
    /\ entryId \in DOMAIN knowledgeEntryStore
    /\ isEntryExpired(knowledgeEntryStore[entryId], now)

\* C28: once an entry has expired it stays expired: no operation and no
\* passing of time takes an expired entry to a state where it is not
\* expired, or where getKnowledgeEntry returns it or queryKnowledgeEntries
\* lists it.
C28_ExpiredStaysExpired ==
    [][\A entryId \in EntryIds :
        Expired(entryId) => (Expired(entryId)' /\ ~Returned(entryId)')]_vars

\* C29: a broadcastMessage to a pool without channel creates the channel
\* 'pool_<poolId>' and succeeds, the message being the last of that
\* channel; a broadcastMessage to a pool with a channel creates no channel.
C29_BroadcastCreatesPoolChannel ==
    [][\A poolId \in PoolIds, senderId \in Agents, suffix \in ChannelSuffixes :
        BroadcastMessage(poolId, senderId, suffix) =>
            LET channelId == PoolChannelId(poolId)
            IN  /\ answer'.err = "none"
                /\ channelId \in DOMAIN channelStore'
                /\ LET messages == channelStore'[channelId].messages
                   IN  /\ messages # << >>
                       /\ messages[Len(messages)].senderId = senderId
                /\ DOMAIN channelStore' \subseteq DOMAIN channelStore \cup {channelId}]_vars

\* C30: in every state, for every agent and endpoint, the requestCount of
\* the endpoint's window is at most the maximum number of requests of that
\* endpoint in the agent's current learning phase.
C30_CountWithinPhaseMaximum ==
    \A agentId \in DOMAIN rateLimitStore :
        \A endpoint \in DOMAIN rateLimitStore[agentId].endpoints :
            rateLimitStore[agentId].endpoints[endpoint].requestCount
                <= getMaxRequests(endpoint, rateLimitStore[agentId].learningPhase)

====
